---- MODULE Spec2Model ----
(***************************************************************************)
(* AssetTrack: the in-memory store (internal/store/memory.go), the REST    *)
(* handlers over it (internal/api/handlers.go) and the read-write lock     *)
(* that guards the store.                                                  *)
(*                                                                         *)
(* Two specifications share the store variables:                           *)
(*   Spec      requests served one after the other; an action is a whole   *)
(*             handler, from decoding the request to the response;         *)
(*   LockSpec  store operations of concurrent goroutines, split at the     *)
(*             lock and unlock calls (and at every iteration of the loop   *)
(*             of GetAssetStats).                                          *)
(*                                                                         *)
(* Strings that the code only compares are TLA+ strings; strings it looks  *)
(* into (Asset.Name, AssetFilter.Search) are sequences of one-character    *)
(* strings.  Asset fields that no modelled operation reads (Tag, Location, *)
(* Vendor, ...) travel with the asset exactly like Name and are left out.  *)
(***************************************************************************)
EXTENDS Integers, Sequences, FiniteSets, TLC

VARIABLES
    assets,       \* MemoryStore.assets: ID -> Asset
    maintenance,  \* MemoryStore.maintenance: asset ID -> sequence of records
    audit,        \* MemoryStore.audit: asset ID -> sequence of entries
    nextID,       \* MemoryStore.nextID
    clock,        \* what time.Now() returns
    ops,          \* how many state-changing steps have been taken
    req,          \* Spec: the request handled by the last step
    resp,         \* Spec: its response
    readers,      \* LockSpec: goroutines holding mu for reading
    writer,       \* LockSpec: the goroutine holding mu for writing, or NoProc
    pc,           \* LockSpec: where each goroutine is in its store operation
    call,         \* LockSpec: the operation and arguments of each goroutine
    local,        \* LockSpec: the locals of each goroutine's operation
    counter,      \* RequestIDSpec: the counter of the RequestID middleware
    rid,          \* RequestIDSpec: where each request is in the middleware
    mwConf,       \* MwSpec: the middleware chain and the origins CORS allows
    mw,           \* MwSpec: the request being served and its response writer
    served,       \* MwSpec: the status each finished request was answered with
    mainPc,       \* MainSpec: where main is
    lsn,          \* MainSpec: the goroutine that runs srv.ListenAndServe
    serverErr,    \* MainSpec: the channel serverErr (its buffer)
    quit,         \* MainSpec: the channel quit (its buffer)
    notified,     \* MainSpec: signal.Notify(quit, ...) has been called
    srv,          \* MainSpec: the http.Server: Shutdown calls, closed or not
    mainLog,      \* MainSpec: what main has logged
    exit,         \* MainSpec: whether and how the process has ended
    sigs,         \* MainSpec: how many signals have been sent to the process
    plan,         \* QuoteSpec: the plan a plan card is rendered for
    page,         \* QuoteSpec: the page the insurance-quote handler rendered last
    ui            \* UISpec: the goroutines serving POST /assets/{id} of the UI

storeVars == <<assets, maintenance, audit, nextID>>
httpVars == <<req, resp>>
lockVars == <<readers, writer, pc, call, local>>
ridVars == <<counter, rid>>
\* The variables of the specifications that are not about the store.
mwVars == <<mwConf, mw, served>>
mainVars == <<mainPc, lsn, serverErr, quit, notified, srv, mainLog, exit, sigs>>
quoteVars == <<plan, page>>
uiVars == <<ui>>
auxVars == <<ridVars, mwVars, mainVars, quoteVars, uiVars>>
\* What the actions of one specification leave alone: the variables of the
\* others.
apiVars == <<storeVars, ops, httpVars, lockVars>>
notRidVars == <<apiVars, mwVars, mainVars, quoteVars, uiVars>>
notMwVars == <<apiVars, clock, ridVars, mainVars, quoteVars, uiVars>>
notMainVars == <<apiVars, clock, ridVars, mwVars, quoteVars, uiVars>>
notQuoteVars == <<apiVars, clock, ridVars, mwVars, mainVars, uiVars>>
notUiVars == <<maintenance, audit, nextID, ops, httpVars, lockVars, ridVars, mwVars,
               mainVars, quoteVars>>
vars == <<assets, maintenance, audit, nextID, clock, ops, req, resp,
          readers, writer, pc, call, local, auxVars>>

-----------------------------------------------------------------------------
(* Bounds of the model. *)

\* How many steps that change the store or the clock a behaviour takes; it
\* caps nextID, the clock and the length of the maintenance and audit slices.
MaxOps == 3

\* How many of the orders in which a `range` over a map may visit its keys
\* the model draws from.
MaxStarts == 2

\* How many requests pass through the RequestID middleware.
MaxRequests == 3

\* How many requests pass through the middleware chain of MwSpec.
MaxServed == 2

\* How many SIGINT or SIGTERM signals are sent to the process.
MaxSignals == 2

\* The most decimal digits the integer part of a plan's amount has.
MaxDigits == 7

\* The zero time.Time: the value of a timestamp the JSON body does not give.
ZeroTime == 0

\* nextID after NewMemoryStore.
InitialNextID == 100

-----------------------------------------------------------------------------
(* Strings. *)

Upper == <<"A","B","C","D","E","F","G","H","I","J","K","L","M",
           "N","O","P","Q","R","S","T","U","V","W","X","Y","Z">>
Lower == <<"a","b","c","d","e","f","g","h","i","j","k","l","m",
           "n","o","p","q","r","s","t","u","v","w","x","y","z">>

\* strings.ToLower on one (ASCII) character.
ToLowerChar(c) ==
    IF \E i \in 1..26 : Upper[i] = c
    THEN Lower[CHOOSE i \in 1..26 : Upper[i] = c]
    ELSE c

\* strings.ToLower.
ToLower(s) == [i \in 1..Len(s) |-> ToLowerChar(s[i])]

\* strings.Contains: substr occurs in s at some offset ("" occurs in every s).
Contains(s, substr) ==
    \E i \in 0..(Len(s) - Len(substr)) :
        SubSeq(s, i + 1, i + Len(substr)) = substr

Digits == <<"0","1","2","3","4","5","6","7","8","9">>

\* The decimal digits of n >= 0 (fmt's %d).
RECURSIVE Itoa(_)
Itoa(n) == IF n < 10 THEN Digits[n + 1] ELSE Itoa(n \div 10) \o Digits[(n % 10) + 1]

\* fmt.Sprintf(prefix + "%03d", n): at least three digits, padded with zeros.
Sprintf03d(prefix, n) ==
    LET d == Itoa(n)
    IN  prefix \o (IF Len(d) = 1 THEN "00" \o d ELSE IF Len(d) = 2 THEN "0" \o d ELSE d)

-----------------------------------------------------------------------------
(* Go maps and slices. *)

\* m[k] = v
MapPut(m, k, v) == [x \in (DOMAIN m) \cup {k} |-> IF x = k THEN v ELSE m[x]]

\* delete(m, k)
MapDelete(m, k) == [x \in (DOMAIN m) \ {k} |-> m[x]]

\* m[k] of a map of slices: the nil slice when k is not a key.
SliceAt(m, k) == IF k \in DOMAIN m THEN m[k] ELSE <<>>

\* One order in which `for k := range m` may visit the keys S.
RECURSIVE Enumerate(_)
Enumerate(S) ==
    IF S = {} THEN <<>>
    ELSE LET k == CHOOSE x \in S : TRUE IN <<k>> \o Enumerate(S \ {k})

\* The sequence s started at position start and wrapped around.
Rotate(s, start) == [i \in 1..Len(s) |-> s[((start + i - 2) % Len(s)) + 1]]

\* The orders of `for k := range m` that the model draws from: Go leaves the
\* order unspecified and starts the iteration at a random position.
RangeOrders(m) ==
    LET n == Cardinality(DOMAIN m)
    IN  IF n = 0 THEN {<<>>}
        ELSE {Rotate(Enumerate(DOMAIN m), start) :
                 start \in 1..(IF n < MaxStarts THEN n ELSE MaxStarts)}

-----------------------------------------------------------------------------
(* models: Asset, MaintenanceRecord, AuditEntry, AssetFilter. *)

Asset(id, name, category, status, department, cost, value, created, updated) ==
    [ID |-> id, Name |-> name, Category |-> category, Status |-> status,
     Department |-> department, PurchaseCost |-> cost, CurrentValue |-> value,
     CreatedAt |-> created, UpdatedAt |-> updated]

MaintenanceRecord(id, assetID, type, status, created) ==
    [ID |-> id, AssetID |-> assetID, Type |-> type, Status |-> status,
     CreatedAt |-> created]

AuditEntry(id, assetID, action, timestamp) ==
    [ID |-> id, AssetID |-> assetID, Action |-> action, Timestamp |-> timestamp]

AssetFilter(status, category, department, search) ==
    [Status |-> status, Category |-> category, Department |-> department,
     Search |-> search]

\* The assets of loadSampleData, without the timestamps the loop sets.
SampleAssets(now) ==
    LET A(id, name, cat, st, dep, cost, val) ==
            Asset(id, name, cat, st, dep, cost, val, now, now)
    IN <<
    A("A001", <<"M","a","c","B","o","o","k"," ","P","r","o"," ","1","6","\"">>,
      "Laptops", "active", "Engineering", 2499, 2100),
    A("A002", <<"T","h","i","n","k","P","a","d"," ","X","1"," ","C","a","r","b","o","n">>,
      "Laptops", "active", "Sales", 1899, 1650),
    A("A003", <<"D","e","l","l"," ","U","2","7","2","3","Q","E">>,
      "Monitors", "active", "Engineering", 799, 700),
    A("A004", <<"D","e","l","l"," ","P","o","w","e","r","E","d","g","e"," ","R","7","5","0">>,
      "Servers", "active", "IT Operations", 12500, 10000),
    A("A005", <<"M","a","c","B","o","o","k"," ","A","i","r"," ","M","2">>,
      "Laptops", "maintenance", "Marketing", 1299, 1150),
    A("A006", <<"C","i","s","c","o"," ","C","a","t","a","l","y","s","t"," ","9","3","0","0">>,
      "Network", "active", "IT Operations", 4500, 3800),
    A("A007", <<"H","P"," ","L","a","s","e","r","J","e","t"," ","P","r","o">>,
      "Printers", "active", "Shared", 549, 500),
    A("A008", <<"D","e","l","l"," ","X","P","S"," ","1","5">>,
      "Laptops", "retired", "Finance", 1799, 0),
    A("A009", <<"L","G"," ","3","4","W","N","8","0","C","-","B">>,
      "Monitors", "active", "Sales", 699, 600),
    A("A010", <<"H","P"," ","E","l","i","t","e","B","o","o","k"," ","8","4","0">>,
      "Laptops", "active", "HR", 1499, 1400)
    >>

\* The maintenance records of loadSampleData (CreatedAt is not set there).
SampleMaintenance ==
    [k \in {"A001", "A005"} |->
        IF k = "A001"
        THEN <<MaintenanceRecord("M001", "A001", "Scheduled", "completed", ZeroTime),
               MaintenanceRecord("M002", "A001", "Repair", "completed", ZeroTime),
               MaintenanceRecord("M003", "A001", "Upgrade", "completed", ZeroTime)>>
        ELSE <<MaintenanceRecord("M004", "A005", "Repair", "pending", ZeroTime),
               MaintenanceRecord("M005", "A005", "Scheduled", "completed", ZeroTime)>>]

\* loadSampleData: s.assets[a.ID] = a for every sample asset.
LoadSampleAssets(now) ==
    LET sample == SampleAssets(now)
    IN  [id \in {sample[i].ID : i \in 1..Len(sample)} |->
            sample[CHOOSE i \in 1..Len(sample) : sample[i].ID = id]]

-----------------------------------------------------------------------------
(* MemoryStore: the methods, as functions of the store's fields.  A method   *)
(* that changes the store returns the new value of every field it assigns.   *)

\* FilterSkips comparing Name and Search as they are, case included.
FilterSkipsCaseSensitive(a, filter) ==
    \/ filter.Status # "" /\ a.Status # filter.Status
    \/ filter.Category # "" /\ a.Category # filter.Category
    \/ filter.Department # "" /\ a.Department # filter.Department
    \/ filter.Search # <<>> /\ ~Contains(a.Name, filter.Search)

\* The `continue` conditions of the loop of ListAssets: asset a is skipped.
FilterSkips(a, filter) ==
    \/ filter.Status # "" /\ a.Status # filter.Status
    \/ filter.Category # "" /\ a.Category # filter.Category
    \/ filter.Department # "" /\ a.Department # filter.Department
    \/ filter.Search # <<>> /\ ~Contains(ToLower(a.Name), ToLower(filter.Search))

\* ListAssets, with the loop visiting the keys in the given order.
ListAssets(filter, order) ==
    LET kept == SelectSeq(order, LAMBDA id : ~FilterSkips(assets[id], filter))
    IN  [i \in 1..Len(kept) |-> assets[kept[i]]]

NilAsset == [nil |-> "Asset"]

\* GetAsset without the `ok` check: a missing key gives the zero Asset.
GetAssetUnchecked(id) ==
    [asset |-> IF id \in DOMAIN assets THEN assets[id]
               ELSE Asset("", <<>>, "", "", "", 0, 0, ZeroTime, ZeroTime),
     err |-> FALSE]

\* GetAsset: a copy of the stored asset, or an error.
GetAsset(id) ==
    IF id \notin DOMAIN assets
    THEN [asset |-> NilAsset, err |-> TRUE]
    ELSE [asset |-> assets[id], err |-> FALSE]

\* CreateAsset storing the asset before it stamps the caller's copy.
CreateAssetStoresUnstamped(asset, created, updated) ==
    LET generate == asset.ID = ""
        next == IF generate THEN nextID + 1 ELSE nextID
        named == [asset EXCEPT !.ID = IF generate THEN Sprintf03d("A", next) ELSE @]
    IN  [assets |-> MapPut(assets, named.ID, named), nextID |-> next,
         asset |-> [named EXCEPT !.CreatedAt = created, !.UpdatedAt = updated],
         err |-> FALSE]

\* CreateAsset; created and updated are its two readings of time.Now().
CreateAsset(asset, created, updated) ==
    LET generate == asset.ID = ""
        next == IF generate THEN nextID + 1 ELSE nextID
        stored == [asset EXCEPT !.ID = IF generate THEN Sprintf03d("A", next) ELSE @,
                                !.CreatedAt = created,
                                !.UpdatedAt = updated]
    IN  [assets |-> MapPut(assets, stored.ID, stored), nextID |-> next,
         asset |-> stored, err |-> FALSE]

\* UpdateAsset without the check that the asset exists.
UpdateAssetUpsert(asset, now) ==
    LET stored == [asset EXCEPT !.UpdatedAt = now]
    IN  [assets |-> MapPut(assets, stored.ID, stored), asset |-> stored, err |-> FALSE]

\* UpdateAsset.
UpdateAsset(asset, now) ==
    IF asset.ID \notin DOMAIN assets
    THEN [assets |-> assets, asset |-> asset, err |-> TRUE]
    ELSE LET stored == [asset EXCEPT !.UpdatedAt = now]
         IN  [assets |-> MapPut(assets, stored.ID, stored), asset |-> stored,
              err |-> FALSE]

\* DeleteAsset without the check that the asset exists.
DeleteAssetUnchecked(id) == [assets |-> MapDelete(assets, id), err |-> FALSE]

\* DeleteAsset.
DeleteAsset(id) ==
    IF id \notin DOMAIN assets
    THEN [assets |-> assets, err |-> TRUE]
    ELSE [assets |-> MapDelete(assets, id), err |-> FALSE]

\* m[k]++ on a map of counters.
Increment(m, k) == MapPut(m, k, (IF k \in DOMAIN m THEN m[k] ELSE 0) + 1)

\* The AssetStats that GetAssetStats starts from.
EmptyStats ==
    [Total |-> 0, Active |-> 0, Maintenance |-> 0, Retired |-> 0,
     TotalValue |-> 0, ByCategory |-> <<>>, ByDepartment |-> <<>>]

\* One iteration of the loop of GetAssetStats, for asset a.
StatsAdd(stats, a) ==
    [Total |-> stats.Total + 1,
     Active |-> stats.Active + (IF a.Status = "active" THEN 1 ELSE 0),
     Maintenance |-> stats.Maintenance + (IF a.Status = "maintenance" THEN 1 ELSE 0),
     Retired |-> stats.Retired + (IF a.Status = "retired" THEN 1 ELSE 0),
     TotalValue |-> stats.TotalValue + a.CurrentValue,
     ByCategory |-> Increment(stats.ByCategory, a.Category),
     ByDepartment |-> Increment(stats.ByDepartment, a.Department)]

\* The loop of GetAssetStats over the keys in the given order.
RECURSIVE StatsLoop(_, _)
StatsLoop(stats, order) ==
    IF order = <<>> THEN stats
    ELSE StatsLoop(StatsAdd(stats, assets[Head(order)]), Tail(order))

\* GetAssetStats.
GetAssetStats(order) == StatsLoop(EmptyStats, order)

\* ListMaintenance: the slice stored under assetID (nil when there is none).
ListMaintenance(assetID) == SliceAt(maintenance, assetID)

\* ListAllMaintenance: the slices of all keys, appended in the given order.
RECURSIVE ListAllMaintenance(_)
ListAllMaintenance(order) ==
    IF order = <<>> THEN <<>>
    ELSE maintenance[Head(order)] \o ListAllMaintenance(Tail(order))

\* CreateMaintenance putting the new record in front of the slice.
CreateMaintenancePrepends(record, now) ==
    LET next == nextID + 1
        stored == [record EXCEPT !.ID = Sprintf03d("M", next), !.CreatedAt = now]
    IN  [maintenance |-> MapPut(maintenance, stored.AssetID,
                                <<stored>> \o SliceAt(maintenance, stored.AssetID)),
         nextID |-> next, record |-> stored, err |-> FALSE]

\* CreateMaintenance.
CreateMaintenance(record, now) ==
    LET next == nextID + 1
        stored == [record EXCEPT !.ID = Sprintf03d("M", next), !.CreatedAt = now]
    IN  [maintenance |-> MapPut(maintenance, stored.AssetID,
                                Append(SliceAt(maintenance, stored.AssetID), stored)),
         nextID |-> next, record |-> stored, err |-> FALSE]

\* ListAuditEntries.
ListAuditEntries(assetID) == SliceAt(audit, assetID)

\* CreateAuditEntry.
CreateAuditEntry(entry, now) ==
    LET next == nextID + 1
        stored == [entry EXCEPT !.ID = Sprintf03d("AU", next), !.Timestamp = now]
    IN  [audit |-> MapPut(audit, stored.AssetID,
                          Append(SliceAt(audit, stored.AssetID), stored)),
         nextID |-> next, entry |-> stored, err |-> FALSE]

-----------------------------------------------------------------------------
(* api: the JSON the handlers write.  A JSON object is a function from the   *)
(* keys it has; a Go value handed to the encoder is the JSON it encodes to.  *)

StatusOK == 200
StatusCreated == 201
StatusNoContent == 204
StatusBadRequest == 400
StatusNotFound == 404
StatusInternalServerError == 500

\* A nil interface{} (apiResponse.Data never set) and a nil *meta.
NilData == [nil |-> "interface"]
NilMeta == [nil |-> "meta"]

JNull == [json |-> "null"]
JArray(items) == [json |-> "array", items |-> items]
JObject(value) == [json |-> "object", value |-> value]

\* encoding/json on a slice.  Every slice of length 0 the handlers encode is
\* the nil slice (`var result []T` never appended to, or the value of a
\* missing map key), which encodes as null.
EncodeSlice(s) == IF Len(s) = 0 THEN JNull ELSE JArray(s)

\* encoding/json on meta: Total has omitempty, so it is left out when 0.
EncodeMeta(m) == [k \in (IF m.Total # 0 THEN {"total"} ELSE {}) |-> m.Total]

\* encoding/json on apiResponse: every field has omitempty.
EncodeApiResponse(r) ==
    LET keys == (IF r.Data # NilData THEN {"data"} ELSE {})
                \cup (IF r.Error # "" THEN {"error"} ELSE {})
                \cup (IF r.Meta # NilMeta THEN {"meta"} ELSE {})
    IN  [k \in keys |-> CASE k = "data" -> r.Data
                          [] k = "error" -> r.Error
                          [] k = "meta" -> EncodeMeta(r.Meta)]

\* A response: the status written and the body written.
respondJSON(status, data) ==
    [status |-> status,
     body |-> EncodeApiResponse([Data |-> data, Error |-> "", Meta |-> NilMeta])]

respondError(status, message) ==
    [status |-> status,
     body |-> EncodeApiResponse([Data |-> NilData, Error |-> message, Meta |-> NilMeta])]

respondList(data, total) ==
    [status |-> StatusOK,
     body |-> EncodeApiResponse([Data |-> data, Error |-> "", Meta |-> [Total |-> total]])]

\* DeleteAsset's success: WriteHeader alone, nothing written to the body.
NoBody == [none |-> "body"]

-----------------------------------------------------------------------------
(* The requests of the model. *)

\* A body json.Decoder cannot decode.
Undecodable == [undecodable |-> TRUE]

iMac == <<"i","M","a","c">>

\* {id} of the URL.  "A101" is the first ID the store generates.
URLIDs == {"A001", "A101", "A999"}

\* Decoded bodies of POST /api/assets and PUT /api/assets/{id}; fields the
\* body leaves out are zero: two bodies give the fields of an asset, two give
\* nothing but the id.
BodyAssets ==
    {Asset(id, iMac, "Laptops", "active", "Sales", 1000, 900, ZeroTime, ZeroTime) :
        id \in {"", "A001"}}
    \cup {Asset(id, <<>>, "", "", "", 0, 0, ZeroTime, ZeroTime) : id \in {"", "A001"}}

\* Decoded bodies of POST /api/maintenance.
BodyRecords ==
    {MaintenanceRecord(id, assetID, "Repair", "pending", ZeroTime) :
        id \in {"", "M001"}, assetID \in {"", "A001", "A777"}}

\* The query parameters of GET /api/assets; a parameter not given is "".
Filters ==
    {AssetFilter("", "", "", <<>>),
     AssetFilter("active", "", "", <<>>),
     AssetFilter("Active", "", "", <<>>),
     AssetFilter("", "Laptops", "", <<>>),
     AssetFilter("", "", "Sales", <<>>),
     AssetFilter("", "", "", <<"M","A","C">>),
     AssetFilter("", "", "", <<"d","e","l","l"," ">>),
     AssetFilter("active", "Laptops", "Sales", <<"p","a","d">>),
     AssetFilter("retired", "Monitors", "", <<>>)}

NoReq == [route |-> "none"]
NoResp == [status |-> 0, body |-> NoBody]

-----------------------------------------------------------------------------
(* api.Handler: one action per handler, taken when no request is being      *)
(* served; req and resp then hold the request and its response until        *)
(* Return.  A handler that returns early never reaches the store.  The      *)
(* handlers' branches for an error of ListAssets, CreateAsset,               *)
(* GetAssetStats, ListMaintenance, ListAllMaintenance and CreateMaintenance  *)
(* are left out: those store methods always return nil.                      *)

\* No request is being served.
Ready == req = NoReq

\* GET /api/assets
HandleListAssets ==
    /\ Ready
    /\ \E filter \in Filters, order \in RangeOrders(assets) :
           LET list == ListAssets(filter, order)
           IN  /\ req' = [route |-> "GET /api/assets", filter |-> filter]
               /\ resp' = respondList(EncodeSlice(list), Len(list))
               /\ UNCHANGED <<storeVars, clock, ops, lockVars, auxVars>>

\* GET /api/assets/{id}
HandleGetAsset ==
    /\ Ready
    /\ \E id \in URLIDs :
           LET r == GetAsset(id)
           IN  /\ req' = [route |-> "GET /api/assets/{id}", id |-> id]
               /\ resp' = IF r.err
                          THEN respondError(StatusNotFound, "Asset not found")
                          ELSE respondJSON(StatusOK, JObject(r.asset))
               /\ UNCHANGED <<storeVars, clock, ops, lockVars, auxVars>>

\* POST /api/assets
HandleCreateAsset ==
    /\ Ready
    /\ \E body \in BodyAssets \cup {Undecodable} :
           /\ req' = [route |-> "POST /api/assets", body |-> body]
           /\ IF body = Undecodable
              THEN /\ resp' = respondError(StatusBadRequest, "Invalid request body")
                   /\ UNCHANGED <<storeVars, clock, ops>>
              ELSE IF body.Name = <<>>
              THEN /\ resp' = respondError(StatusBadRequest, "Name is required")
                   /\ UNCHANGED <<storeVars, clock, ops>>
              ELSE /\ ops < MaxOps
                   /\ \E updated \in {clock, clock + 1} :
                        LET r == CreateAsset(body, clock, updated)
                        IN  /\ assets' = r.assets
                            /\ nextID' = r.nextID
                            /\ clock' = updated
                            /\ resp' = respondJSON(StatusCreated, JObject(r.asset))
                   /\ ops' = ops + 1
                   /\ UNCHANGED <<maintenance, audit>>
           /\ UNCHANGED <<lockVars, auxVars>>

\* PUT /api/assets/{id}
HandleUpdateAsset ==
    /\ Ready
    /\ \E id \in URLIDs, body \in BodyAssets \cup {Undecodable} :
           /\ req' = [route |-> "PUT /api/assets/{id}", id |-> id, body |-> body]
           /\ IF body = Undecodable
              THEN /\ resp' = respondError(StatusBadRequest, "Invalid request body")
                   /\ UNCHANGED <<storeVars, ops>>
              ELSE LET r == UpdateAsset([body EXCEPT !.ID = id], clock)
                   IN  IF r.err
                       THEN /\ resp' = respondError(StatusNotFound, "Asset not found")
                            /\ UNCHANGED <<storeVars, ops>>
                       ELSE /\ ops < MaxOps
                            /\ assets' = r.assets
                            /\ resp' = respondJSON(StatusOK, JObject(r.asset))
                            /\ ops' = ops + 1
                            /\ UNCHANGED <<maintenance, audit, nextID>>
           /\ UNCHANGED <<clock, lockVars, auxVars>>

\* DELETE /api/assets/{id}
HandleDeleteAsset ==
    /\ Ready
    /\ \E id \in URLIDs :
           LET r == DeleteAsset(id)
           IN  /\ req' = [route |-> "DELETE /api/assets/{id}", id |-> id]
               /\ IF r.err
                  THEN /\ resp' = respondError(StatusNotFound, "Asset not found")
                       /\ UNCHANGED <<storeVars, ops>>
                  ELSE /\ ops < MaxOps
                       /\ assets' = r.assets
                       /\ resp' = [status |-> StatusNoContent, body |-> NoBody]
                       /\ ops' = ops + 1
                       /\ UNCHANGED <<maintenance, audit, nextID>>
               /\ UNCHANGED <<clock, lockVars, auxVars>>

\* GET /api/assets/stats
HandleGetAssetStats ==
    /\ Ready
    /\ \E order \in RangeOrders(assets) :
           /\ req' = [route |-> "GET /api/assets/stats"]
           /\ resp' = respondJSON(StatusOK, JObject(GetAssetStats(order)))
           /\ UNCHANGED <<storeVars, clock, ops, lockVars, auxVars>>

\* GET /api/assets/{id}/maintenance
HandleGetAssetMaintenance ==
    /\ Ready
    /\ \E id \in URLIDs :
           LET records == ListMaintenance(id)
           IN  /\ req' = [route |-> "GET /api/assets/{id}/maintenance", id |-> id]
               /\ resp' = respondList(EncodeSlice(records), Len(records))
               /\ UNCHANGED <<storeVars, clock, ops, lockVars, auxVars>>

\* GET /api/maintenance
HandleListAllMaintenance ==
    /\ Ready
    /\ \E order \in RangeOrders(maintenance) :
           LET records == ListAllMaintenance(order)
           IN  /\ req' = [route |-> "GET /api/maintenance"]
               /\ resp' = respondList(EncodeSlice(records), Len(records))
               /\ UNCHANGED <<storeVars, clock, ops, lockVars, auxVars>>

\* POST /api/maintenance
HandleCreateMaintenance ==
    /\ Ready
    /\ \E body \in BodyRecords \cup {Undecodable} :
           /\ req' = [route |-> "POST /api/maintenance", body |-> body]
           /\ IF body = Undecodable
              THEN /\ resp' = respondError(StatusBadRequest, "Invalid request body")
                   /\ UNCHANGED <<storeVars, ops>>
              ELSE IF body.AssetID = ""
              THEN /\ resp' = respondError(StatusBadRequest, "Asset ID is required")
                   /\ UNCHANGED <<storeVars, ops>>
              ELSE LET r == CreateMaintenance(body, clock)
                   IN  /\ ops < MaxOps
                       /\ maintenance' = r.maintenance
                       /\ nextID' = r.nextID
                       /\ resp' = respondJSON(StatusCreated, JObject(r.record))
                       /\ ops' = ops + 1
                       /\ UNCHANGED <<assets, audit>>
           /\ UNCHANGED <<clock, lockVars, auxVars>>

\* The handler returns and the server is ready for the next request.
Return ==
    /\ ~Ready
    /\ req' = NoReq
    /\ resp' = NoResp
    /\ UNCHANGED <<storeVars, clock, ops, lockVars, auxVars>>

\* Time passes between two requests.
Tick ==
    /\ Ready
    /\ ops < MaxOps
    /\ clock' = clock + 1
    /\ ops' = ops + 1
    /\ UNCHANGED <<storeVars, httpVars, lockVars, auxVars>>

-----------------------------------------------------------------------------
(* Goroutines of LockSpec. *)

Procs == {"g1", "g2"}
NoProc == "none"
NoLocal == [none |-> TRUE]

\* NewMemoryStore: the empty maps, nextID 100 and the sample data.
InitStore ==
    /\ assets = LoadSampleAssets(ZeroTime + 1)
    /\ maintenance = SampleMaintenance
    /\ audit = <<>>
    /\ nextID = InitialNextID
    /\ clock = ZeroTime + 1
    /\ ops = 0

InitLock ==
    /\ readers = {}
    /\ writer = NoProc
    /\ pc = [p \in Procs |-> "idle"]
    /\ call = [p \in Procs |-> [op |-> "none"]]
    /\ local = [p \in Procs |-> NoLocal]

\* The requests RequestIDSpec serves.
Requests == 1..MaxRequests

\* RequestID(next): `var counter uint64` is zero; no request has arrived.
InitRequestID ==
    /\ counter = 0
    /\ rid = [r \in Requests |-> [pc |-> "counter++", tmp |-> 0, reqID |-> 0,
                                  ctx |-> 0, header |-> 0]]

\* The global middleware of main, outermost first.
MainChainRecovererOutside == <<"RealIP", "Recoverer", "Logger", "SecureHeaders">>

MainChain == <<"RealIP", "Logger", "Recoverer", "SecureHeaders">>

\* The middleware chains MwSpec is built with, outermost first: a middleware
\* around the handler alone, the chain main gives the UI routes, and the
\* chain it gives the routes under /api.
Chains ==
    {<<"Logger">>, <<"Recoverer">>, <<"CORS">>,
     MainChain, MainChain \o <<"CORS">>}

OriginA == "https://a.example"
OriginB == "https://b.example"

\* The allowedOrigins CORS is built with.
AllowedLists == {<<>>, <<"*">>, <<OriginA>>, <<OriginB, OriginA>>}

\* The Origin header of a request; "" when the request has none.
Origins == {"", OriginA, OriginB}

Methods == {"GET", "OPTIONS"}

\* The address of the peer (r.RemoteAddr as net/http sets it) and the
\* addresses a proxy may name in X-Forwarded-For and X-Real-IP.
PeerAddr == "10.0.0.1:40000"
ForwardedAddr == "203.0.113.7"
RealAddr == "198.51.100.9"

\* The proxy headers of a request; "" when the request lacks the header.
ProxyHeaders ==
    {[xff |-> "", xrip |-> ""], [xff |-> "", xrip |-> RealAddr],
     [xff |-> ForwardedAddr, xrip |-> RealAddr]}

\* What the handler at the end of the chain does with its ResponseWriter
\* before it returns; after "panic" nothing more runs.
WH(code) == [op |-> "WriteHeader", code |-> code]
Write == [op |-> "Write"]
Panic == [op |-> "panic"]
Scripts ==
    {<<>>, <<WH(StatusOK)>>, <<WH(StatusNotFound)>>, <<Write>>,
     <<WH(StatusNotFound), WH(StatusOK)>>,
     <<Panic>>, <<WH(StatusOK), Panic>>, <<Write, Panic>>}

\* A ResponseWriter of net/http before anything is written: status 0 stands
\* for "no header written yet"; sent is the header map as it was written.
NewWriter == [header |-> <<>>, status |-> 0, sent |-> <<>>]

NoMwReq == [method |-> "", origin |-> "", xff |-> "", xrip |-> "", remote |-> "",
            script |-> <<>>]

\* No request is being served.
IdleMw ==
    [mode |-> "idle", req |-> NoMwReq, next |-> 1, stack |-> <<>>,
     script |-> <<>>, w |-> NewWriter, wrapped |-> 0, logs |-> <<>>,
     invoked |-> 0, panic |-> FALSE]

\* The chain as main (or a test) builds it, before the first request.
InitMw(chain, allowedOrigins) ==
    /\ mwConf = [chain |-> chain, allowedOrigins |-> allowedOrigins]
    /\ mw = IdleMw
    /\ served = <<>>

\* The result of srv.ListenAndServe not yet known.
NoResult == "none"

\* main at line 306: the server is configured, no goroutine started, no
\* channel made, SIGINT and SIGTERM still have their default action.
InitMain ==
    /\ mainPc = "start"
    /\ lsn = [pc |-> "none", result |-> NoResult]
    /\ serverErr = <<>>
    /\ quit = <<>>
    /\ notified = FALSE
    /\ srv = [shutdownCalls |-> 0, closed |-> FALSE]
    /\ mainLog = <<>>
    /\ exit = [done |-> FALSE, status |-> 0, by |-> "none"]
    /\ sigs = 0

\* A float64 amount: (-1)^neg * (whole + half/2), whole >= 0.
Amount(neg, whole, half) == [neg |-> neg, whole |-> whole, half |-> half]

RECURSIVE Pow10(_)
Pow10(d) == IF d = 0 THEN 1 ELSE 10 * Pow10(d - 1)

\* The first d digits of 1203405067: a number of d digits with zeros inside.
WithZeros(d) == 1203405067 \div Pow10(10 - d)

\* The amounts a plan's Coverage takes: zero and, for every number of
\* digits up to MaxDigits, the least, the greatest and one with zeros
\* inside, each positive and negative, whole and with a half.
Amounts ==
    {Amount(neg, whole, half) :
        neg \in BOOLEAN,
        whole \in {0} \cup UNION {{Pow10(d - 1), Pow10(d) - 1, WithZeros(d)} :
                                    d \in 1..MaxDigits},
        half \in BOOLEAN}

\* The amounts a plan's Deductible takes.
Deductibles == {Amount(FALSE, 0, FALSE), Amount(FALSE, 500, FALSE), Amount(FALSE, 1000, FALSE)}

NoPage == [kind |-> "none"]

\* The insurance-quote handler with a plan in its store, before a request.
InitQuote(coverage, deductible) ==
    /\ plan = [Coverage |-> coverage, Deductible |-> deductible]
    /\ page = NoPage

\* A plan of 100,000 coverage and 500 deductible.
InitQuoteSample == InitQuote(Amount(FALSE, 100000, FALSE), Amount(FALSE, 500, FALSE))

\* The chain as main builds it for /api.
InitMwMain == InitMw(MainChain \o <<"CORS">>, <<"*">>)

\* The goroutines of the asset manager's UI: no request accepted yet.
IdleUI == [pc |-> "idle"]

InitUI == ui = [p \in Procs |-> IdleUI]

InitAux ==
    /\ InitUI
    /\ InitRequestID
    /\ InitMain
    /\ InitQuoteSample
    /\ InitMwMain

Init ==
    /\ InitStore
    /\ InitLock
    /\ InitAux
    /\ req = NoReq
    /\ resp = NoResp

Next ==
    \/ HandleListAssets
    \/ HandleGetAsset
    \/ HandleCreateAsset
    \/ HandleUpdateAsset
    \/ HandleDeleteAsset
    \/ HandleGetAssetStats
    \/ HandleGetAssetMaintenance
    \/ HandleListAllMaintenance
    \/ HandleCreateMaintenance
    \/ Return
    \/ Tick

Spec == Init /\ [][Next]_vars

-----------------------------------------------------------------------------
(* LockSpec: store methods called by concurrent goroutines.  A method is     *)
(* split at its lock call (the goroutine blocks at pc "lock" until mu is     *)
(* free for it), its body (pc "body"; one step, or one step per iteration    *)
(* for the loop of GetAssetStats) and its deferred unlock (pc "unlock").     *)
(* The clock stands still: no lock step depends on a timestamp.              *)

\* Every method taking the read lock, the writing ones too.
LockCallAlwaysRLock(op) == "RLock"

\* The lock call each method starts with: "Lock" for mu.Lock(), "RLock" for
\* mu.RLock().
LockCall(op) ==
    CASE op = "ListAssets" -> "RLock"
      [] op = "GetAsset" -> "RLock"
      [] op = "CreateAsset" -> "Lock"
      [] op = "UpdateAsset" -> "Lock"
      [] op = "DeleteAsset" -> "Lock"
      [] op = "GetAssetStats" -> "RLock"
      [] op = "ListMaintenance" -> "RLock"
      [] op = "ListAllMaintenance" -> "RLock"
      [] op = "CreateMaintenance" -> "Lock"
      [] op = "ListAuditEntries" -> "RLock"
      [] op = "CreateAuditEntry" -> "Lock"

\* The methods whose body assigns to assets, maintenance, audit or nextID.
WritingOps ==
    {"CreateAsset", "UpdateAsset", "DeleteAsset", "CreateMaintenance", "CreateAuditEntry"}

\* sync.RWMutex: RLock returns when no goroutine holds the write lock.
CanRLock == writer = NoProc

\* A write lock that does not wait for the readers to leave.
CanLockDespiteReaders == writer = NoProc

\* sync.RWMutex: Lock returns when no goroutine holds the lock in any mode.
CanLock == writer = NoProc /\ readers = {}

\* The calls the goroutines make.
Calls ==
    {[op |-> "ListAssets", filter |-> AssetFilter("active", "", "", <<>>)],
     [op |-> "GetAsset", id |-> "A001"],
     [op |-> "CreateAsset",
      asset |-> Asset("", iMac, "Laptops", "active", "Sales", 1000, 900, ZeroTime, ZeroTime)],
     [op |-> "UpdateAsset",
      asset |-> Asset("A002", iMac, "Desktops", "retired", "Sales", 1000, 900, ZeroTime, ZeroTime)],
     [op |-> "DeleteAsset", id |-> "A001"],
     [op |-> "GetAssetStats"],
     [op |-> "ListMaintenance", assetID |-> "A001"],
     [op |-> "ListAllMaintenance"],
     [op |-> "CreateMaintenance",
      record |-> MaintenanceRecord("", "A001", "Repair", "pending", ZeroTime)],
     [op |-> "ListAuditEntries", assetID |-> "A001"],
     [op |-> "CreateAuditEntry", entry |-> AuditEntry("", "A001", "updated", ZeroTime)]}


\* A goroutine calls a store method and reaches its lock call.
Invoke(p) ==
    /\ pc[p] = "idle"
    /\ \E c \in Calls :
          /\ c.op \in WritingOps => ops < MaxOps
          /\ ops' = IF c.op \in WritingOps THEN ops + 1 ELSE ops
          /\ call' = [call EXCEPT ![p] = c]
    /\ pc' = [pc EXCEPT ![p] = "lock"]
    /\ UNCHANGED <<storeVars, clock, httpVars, auxVars, readers, writer, local>>

\* s.mu.RLock() returns.
RLock(p) ==
    /\ pc[p] = "lock"
    /\ LockCall(call[p].op) = "RLock"
    /\ CanRLock
    /\ readers' = readers \cup {p}
    /\ pc' = [pc EXCEPT ![p] = "body"]
    /\ IF call[p].op = "GetAssetStats"
       THEN \E order \in RangeOrders(assets) :
               local' = [local EXCEPT ![p] =
                            [stats |-> EmptyStats, order |-> order, i |-> 1]]
       ELSE local' = local
    /\ UNCHANGED <<storeVars, clock, ops, httpVars, auxVars, writer, call>>

\* s.mu.Lock() returns.
Lock(p) ==
    /\ pc[p] = "lock"
    /\ LockCall(call[p].op) = "Lock"
    /\ CanLock
    /\ writer' = p
    /\ pc' = [pc EXCEPT ![p] = "body"]
    /\ UNCHANGED <<storeVars, clock, ops, httpVars, auxVars, readers, call, local>>

\* The body of a method that only reads and keeps nothing but its result:
\* ListAssets, GetAsset, ListMaintenance, ListAllMaintenance, ListAuditEntries.
ReadBody(p) ==
    /\ pc[p] = "body"
    /\ call[p].op \in {"ListAssets", "GetAsset", "ListMaintenance",
                       "ListAllMaintenance", "ListAuditEntries"}
    /\ pc' = [pc EXCEPT ![p] = "unlock"]
    /\ UNCHANGED <<storeVars, clock, ops, httpVars, auxVars, readers, writer, call, local>>

\* One iteration of `for _, a := range s.assets` in GetAssetStats, or its
\* end.  The range reads the map as it is at each iteration: a key deleted
\* before it is reached is not produced (a key added meanwhile may be left
\* out, and is).
StatsBody(p) ==
    /\ pc[p] = "body"
    /\ call[p].op = "GetAssetStats"
    /\ LET l == local[p]
       IN  IF l.i > Len(l.order)
           THEN /\ pc' = [pc EXCEPT ![p] = "unlock"]
                /\ local' = local
           ELSE /\ pc' = pc
                /\ local' = [local EXCEPT ![p] =
                      [l EXCEPT !.i = @ + 1,
                                !.stats = IF l.order[l.i] \in DOMAIN assets
                                          THEN StatsAdd(@, assets[l.order[l.i]])
                                          ELSE @]]
    /\ UNCHANGED <<storeVars, clock, ops, httpVars, auxVars, readers, writer, call>>

\* The body of CreateAsset.
CreateAssetBody(p) ==
    /\ pc[p] = "body"
    /\ call[p].op = "CreateAsset"
    /\ LET r == CreateAsset(call[p].asset, clock, clock)
       IN  assets' = r.assets /\ nextID' = r.nextID
    /\ pc' = [pc EXCEPT ![p] = "unlock"]
    /\ UNCHANGED <<maintenance, audit, clock, ops, httpVars, auxVars, readers, writer, call, local>>

\* The body of UpdateAsset.
UpdateAssetBody(p) ==
    /\ pc[p] = "body"
    /\ call[p].op = "UpdateAsset"
    /\ assets' = UpdateAsset(call[p].asset, clock).assets
    /\ pc' = [pc EXCEPT ![p] = "unlock"]
    /\ UNCHANGED <<maintenance, audit, nextID, clock, ops, httpVars, auxVars, readers, writer,
                   call, local>>

\* The body of DeleteAsset.
DeleteAssetBody(p) ==
    /\ pc[p] = "body"
    /\ call[p].op = "DeleteAsset"
    /\ assets' = DeleteAsset(call[p].id).assets
    /\ pc' = [pc EXCEPT ![p] = "unlock"]
    /\ UNCHANGED <<maintenance, audit, nextID, clock, ops, httpVars, auxVars, readers, writer,
                   call, local>>

\* The body of CreateMaintenance.
CreateMaintenanceBody(p) ==
    /\ pc[p] = "body"
    /\ call[p].op = "CreateMaintenance"
    /\ LET r == CreateMaintenance(call[p].record, clock)
       IN  maintenance' = r.maintenance /\ nextID' = r.nextID
    /\ pc' = [pc EXCEPT ![p] = "unlock"]
    /\ UNCHANGED <<assets, audit, clock, ops, httpVars, auxVars, readers, writer, call, local>>

\* The body of CreateAuditEntry.
CreateAuditEntryBody(p) ==
    /\ pc[p] = "body"
    /\ call[p].op = "CreateAuditEntry"
    /\ LET r == CreateAuditEntry(call[p].entry, clock)
       IN  audit' = r.audit /\ nextID' = r.nextID
    /\ pc' = [pc EXCEPT ![p] = "unlock"]
    /\ UNCHANGED <<assets, maintenance, clock, ops, httpVars, auxVars, readers, writer, call, local>>

\* defer s.mu.RUnlock()
RUnlock(p) ==
    /\ pc[p] = "unlock"
    /\ LockCall(call[p].op) = "RLock"
    /\ readers' = readers \ {p}
    /\ pc' = [pc EXCEPT ![p] = "idle"]
    /\ call' = [call EXCEPT ![p] = [op |-> "none"]]
    /\ local' = [local EXCEPT ![p] = NoLocal]
    /\ UNCHANGED <<storeVars, clock, ops, httpVars, auxVars, writer>>

\* defer s.mu.Unlock()
Unlock(p) ==
    /\ pc[p] = "unlock"
    /\ LockCall(call[p].op) = "Lock"
    /\ writer' = NoProc
    /\ pc' = [pc EXCEPT ![p] = "idle"]
    /\ call' = [call EXCEPT ![p] = [op |-> "none"]]
    /\ local' = [local EXCEPT ![p] = NoLocal]
    /\ UNCHANGED <<storeVars, clock, ops, httpVars, auxVars, readers>>

LockNext ==
    \E p \in Procs :
        \/ Invoke(p)
        \/ RLock(p)
        \/ Lock(p)
        \/ ReadBody(p)
        \/ StatsBody(p)
        \/ CreateAssetBody(p)
        \/ UpdateAssetBody(p)
        \/ DeleteAssetBody(p)
        \/ CreateMaintenanceBody(p)
        \/ CreateAuditEntryBody(p)
        \/ RUnlock(p)
        \/ Unlock(p)

LockSpec == Init /\ [][LockNext]_vars

-----------------------------------------------------------------------------
(* Reading a response. *)

\* A handler step: the server was ready and req' is the request it served.
Serves(route) == Ready /\ req'.route = route

\* The response is the error document {"error": message} with this status.
IsError(r, status, message) == r.status = status /\ r.body = [error |-> message]

\* The items of the data array of a list response (none when data is null).
Items(r) == IF r.body["data"] = JNull THEN <<>> ELSE r.body["data"].items

\* The Go value carried as "data" by a respondJSON response.
Data(r) == r.body["data"].value

-----------------------------------------------------------------------------
(* C2 *)

\* Two characters that are equal up to the case of a letter.
SameLetter(c, d) ==
    c = d \/ \E i \in 1..26 : {c, d} = {Upper[i], Lower[i]}

\* sub occurs in s when the case of letters is ignored.
OccursIgnoringCase(s, sub) ==
    \E off \in 0..(Len(s) - Len(sub)) :
        \A j \in 1..Len(sub) : SameLetter(s[off + j], sub[j])

\* Asset a satisfies every non-empty criterion of the filter.
Satisfies(a, filter) ==
    /\ filter.Status = "" \/ a.Status = filter.Status
    /\ filter.Category = "" \/ a.Category = filter.Category
    /\ filter.Department = "" \/ a.Department = filter.Department
    /\ filter.Search = <<>> \/ OccursIgnoringCase(a.Name, filter.Search)

\* C2: the assets listed by GET /api/assets (ListAssets(filter)) are exactly
\* the stored assets that satisfy every non-empty criterion of the filter
\* (Status, Category, Department by equality, Search as a case-insensitive
\* substring of Name), each listed exactly once; with the empty filter these
\* are all stored assets.
C2_ListAssetsExactlyMatching ==
    req.route = "GET /api/assets" =>
        LET items == Items(resp)
            wanted == {assets[id] : id \in {k \in DOMAIN assets :
                                               Satisfies(assets[k], req.filter)}}
        IN  /\ {items[i] : i \in 1..Len(items)} = wanted
            /\ Len(items) = Cardinality(wanted)
            /\ req.filter = AssetFilter("", "", "", <<>>) =>
                   Len(items) = Cardinality(DOMAIN assets)

\* Witness: the search "MAC" lists the two MacBooks of the sample data, whose
\* names hold it as "Mac".
C2_Witness ==
    /\ req.route = "GET /api/assets"
    /\ req.filter.Search = <<"M","A","C">>
    /\ Len(Items(resp)) = 2
    /\ \A i \in 1..2 : SubSeq(Items(resp)[i].Name, 1, 3) = <<"M","a","c">>

-----------------------------------------------------------------------------
(* C3 *)

\* C3 (as claimed): every successful POST /api/assets (CreateAsset) increases
\* the number of stored assets by exactly one and leaves every asset stored
\* before unchanged, whether the store generates the ID or the body gives it.
C3_CreateAddsOneAsset ==
    [][(Serves("POST /api/assets") /\ resp'.status = StatusCreated) =>
          /\ Cardinality(DOMAIN assets') = Cardinality(DOMAIN assets) + 1
          /\ \A id \in DOMAIN assets : id \in DOMAIN assets' /\ assets'[id] = assets[id]
      ]_vars

-----------------------------------------------------------------------------
(* C4 *)

\* C4: a PUT /api/assets/{id} never creates an asset.  When its body decodes
\* and no asset is stored under {id}, UpdateAsset fails: the answer is 404
\* "Asset not found" and the store is unchanged.  When an asset is stored
\* under {id}, it is replaced by the body's asset with ID {id} (whatever ID
\* the body gives) and UpdatedAt now; nothing else in the store changes.  (A
\* body that does not decode is answered 400 before the store is called.)
C4_UpdateOnlyExisting ==
    [][Serves("PUT /api/assets/{id}") =>
          /\ DOMAIN assets' = DOMAIN assets
          /\ \A k \in DOMAIN assets \ {req'.id} : assets'[k] = assets[k]
          /\ <<maintenance', audit', nextID'>> = <<maintenance, audit, nextID>>
          /\ req'.body # Undecodable =>
                IF req'.id \notin DOMAIN assets
                THEN /\ IsError(resp', StatusNotFound, "Asset not found")
                     /\ assets' = assets
                ELSE /\ resp'.status = StatusOK
                     /\ assets'[req'.id] =
                            [req'.body EXCEPT !.ID = req'.id, !.UpdatedAt = clock]
                     /\ Data(resp') = assets'[req'.id]
          /\ req'.body = Undecodable => assets' = assets
      ]_vars

\* Witness: a PUT whose body names another ID has replaced the asset under
\* the URL's id.
C4_Witness ==
    /\ req.route = "PUT /api/assets/{id}"
    /\ resp.status = StatusOK
    /\ req.body.ID # req.id
    /\ assets[req.id].ID = req.id
    /\ assets[req.id].Name = req.body.Name

-----------------------------------------------------------------------------
(* C5 *)

\* The IDs an asset can be stored under in this model.
AssetIDs == URLIDs \cup DOMAIN assets \cup DOMAIN assets'

\* C5: DELETE /api/assets/{id} of a stored ID answers 204 and removes that
\* asset and nothing else; of an ID not stored it answers 404 "Asset not
\* found" and leaves the store unchanged.  An ID that is not stored stays
\* not stored (GetAsset and DeleteAsset of it fail) until a POST /api/assets
\* creates an asset with that ID.
C5_DeleteRemoves ==
    [][/\ Serves("DELETE /api/assets/{id}") =>
             IF req'.id \in DOMAIN assets
             THEN /\ resp'.status = StatusNoContent
                  /\ assets' = [k \in DOMAIN assets \ {req'.id} |-> assets[k]]
                  /\ <<maintenance', audit', nextID'>> = <<maintenance, audit, nextID>>
             ELSE /\ IsError(resp', StatusNotFound, "Asset not found")
                  /\ storeVars' = storeVars
       /\ \A id \in AssetIDs :
             /\ id \notin DOMAIN assets => GetAsset(id).err /\ DeleteAsset(id).err
             /\ (id \notin DOMAIN assets /\ id \in DOMAIN assets') =>
                    /\ Serves("POST /api/assets")
                    /\ resp'.status = StatusCreated
                    /\ Data(resp').ID = id
      ]_vars

\* Witness: A001 was deleted; a GetAsset and a second delete of it fail.
C5_Witness ==
    /\ req.route = "DELETE /api/assets/{id}"
    /\ resp.status = StatusNoContent
    /\ req.id = "A001"
    /\ GetAsset("A001").err
    /\ DeleteAsset("A001").err

-----------------------------------------------------------------------------
(* C6 *)

\* C6: GET /api/assets/{id} (GetAsset(id)) answers 200 with the stored asset
\* exactly when an asset is stored under id, and 404 "Asset not found"
\* otherwise; the store is unchanged in both cases.
C6_GetAssetIffStored ==
    [][Serves("GET /api/assets/{id}") =>
          /\ storeVars' = storeVars
          /\ IF req'.id \in DOMAIN assets
             THEN /\ resp'.status = StatusOK
                  /\ resp'.body = [data |-> JObject(assets[req'.id])]
                  /\ assets[req'.id].ID = req'.id
             ELSE IsError(resp', StatusNotFound, "Asset not found")
      ]_vars

\* Witness: an asset that a POST created under a generated ID is returned.
C6_Witness ==
    /\ req.route = "GET /api/assets/{id}"
    /\ req.id = "A101"
    /\ resp.status = StatusOK
    /\ Data(resp).Name = iMac

-----------------------------------------------------------------------------
(* C7 *)

\* The request body is rejected by Handler.CreateAsset.
InvalidAssetBody(body) == body = Undecodable \/ body.Name = <<>>

\* C7: POST /api/assets with a body that does not decode or whose Name is
\* empty answers 400 and leaves assets and nextID unchanged; any other body
\* answers 201 carrying the asset with its ID (the body's, or a generated one
\* when the body's is empty), and GetAsset of that ID right after the
\* request returns exactly the asset the response carries.
C7_CreateValidates ==
    /\ [][Serves("POST /api/assets") =>
             IF InvalidAssetBody(req'.body)
             THEN /\ resp'.status = StatusBadRequest
                  /\ assets' = assets
                  /\ nextID' = nextID
             ELSE /\ resp'.status = StatusCreated
                  /\ Data(resp').ID # ""
                  /\ req'.body.ID # "" => Data(resp').ID = req'.body.ID
                  /\ Data(resp').Name = req'.body.Name
         ]_vars
    /\ [](req.route = "POST /api/assets" /\ resp.status = StatusCreated =>
             GetAsset(Data(resp).ID) = [asset |-> Data(resp), err |-> FALSE])

\* Witness: a created asset with a generated ID is in the store as answered.
C7_Witness ==
    /\ req.route = "POST /api/assets"
    /\ resp.status = StatusCreated
    /\ req.body.ID = ""
    /\ Data(resp).ID = "A101"
    /\ assets["A101"] = Data(resp)

-----------------------------------------------------------------------------
(* C8 *)

\* C8: POST /api/maintenance with a body that does not decode or whose
\* AssetID is empty answers 400 and leaves the store unchanged; any other
\* body answers 201 carrying the record with the ID the store assigned, and
\* that record is the last element of ListMaintenance(record.AssetID), after
\* the records that were there before.
C8_CreateMaintenanceAppends ==
    /\ [][Serves("POST /api/maintenance") =>
             IF req'.body = Undecodable \/ req'.body.AssetID = ""
             THEN /\ resp'.status = StatusBadRequest
                  /\ storeVars' = storeVars
             ELSE /\ resp'.status = StatusCreated
                  /\ Data(resp').AssetID = req'.body.AssetID
                  /\ Data(resp').ID = Sprintf03d("M", nextID')
                  /\ maintenance'[req'.body.AssetID] =
                        Append(ListMaintenance(req'.body.AssetID), Data(resp'))
         ]_vars
    /\ [](req.route = "POST /api/maintenance" /\ resp.status = StatusCreated =>
             LET list == ListMaintenance(Data(resp).AssetID)
             IN  Len(list) > 0 /\ list[Len(list)] = Data(resp))

\* Witness: a record created for A001 follows the three sample records.
C8_Witness ==
    /\ req.route = "POST /api/maintenance"
    /\ resp.status = StatusCreated
    /\ Len(ListMaintenance("A001")) = 4
    /\ ListMaintenance("A001")[4] = Data(resp)
    /\ Data(resp).ID # req.body.ID

-----------------------------------------------------------------------------
(* C9 *)

ListRoutes ==
    {"GET /api/assets", "GET /api/assets/{id}/maintenance", "GET /api/maintenance"}

\* C9 (as claimed): every list response has status 200 and a meta.total equal
\* to the number of items of its data array, also when the result is empty.
C9_MetaTotalCountsItems ==
    req.route \in ListRoutes =>
        /\ resp.status = StatusOK
        /\ "meta" \in DOMAIN resp.body
        /\ "total" \in DOMAIN resp.body["meta"]
        /\ resp.body["meta"]["total"] = Len(Items(resp))

-----------------------------------------------------------------------------
(* C1 *)

\* Goroutine p is between the lock call and the unlock of a store method.
InCriticalSection(p) == pc[p] \in {"body", "unlock"}

\* C1: in every interleaving, a goroutine inside a writing method
\* (CreateAsset, UpdateAsset, DeleteAsset, CreateMaintenance,
\* CreateAuditEntry) holds the write lock and no other goroutine is inside
\* any store method; a goroutine inside a List*/Get* method holds the read
\* lock and nobody holds the write lock.  The maps and nextID are accessed in
\* the body only, so every access happens with the lock held.
C1_LockDiscipline ==
    \A p \in Procs :
        InCriticalSection(p) =>
            IF call[p].op \in WritingOps
            THEN /\ writer = p
                 /\ readers = {}
                 /\ \A q \in Procs \ {p} : ~InCriticalSection(q)
            ELSE /\ p \in readers
                 /\ writer = NoProc

\* Witness: one goroutine is in the body of CreateAsset while the other is
\* blocked in the lock call of DeleteAsset.
C1_Witness ==
    \E p, q \in Procs :
        /\ pc[p] = "body" /\ call[p].op = "CreateAsset"
        /\ pc[q] = "lock" /\ call[q].op = "DeleteAsset"

-----------------------------------------------------------------------------
(* C10 *)

\* The sum of the counters of a map.
RECURSIVE SumOf(_)
SumOf(m) ==
    IF DOMAIN m = {} THEN 0
    ELSE LET k == CHOOSE x \in DOMAIN m : TRUE
         IN  m[k] + SumOf([x \in DOMAIN m \ {k} |-> m[x]])

\* How many stored assets have this Status.
CountStatus(status) == Cardinality({id \in DOMAIN assets : assets[id].Status = status})

\* C10: the statistics GetAssetStats is about to return, with writers calling
\* the store concurrently, are those of the store as it is: Total is the
\* number of stored assets, the counts of ByCategory and of ByDepartment each
\* sum to Total, and Active, Maintenance, Retired count the assets whose
\* Status is "active", "maintenance", "retired".
C10_StatsOfOneState ==
    \A p \in Procs :
        (call[p].op = "GetAssetStats" /\ pc[p] = "unlock") =>
            LET stats == local[p].stats
            IN  /\ stats.Total = Cardinality(DOMAIN assets)
                /\ SumOf(stats.ByCategory) = stats.Total
                /\ SumOf(stats.ByDepartment) = stats.Total
                /\ stats.Active = CountStatus("active")
                /\ stats.Maintenance = CountStatus("maintenance")
                /\ stats.Retired = CountStatus("retired")

\* Witness: GetAssetStats has counted the eleven assets stored after a
\* CreateAsset, while the other goroutine waits in the lock call of
\* DeleteAsset.
C10_Witness ==
    \E p, q \in Procs :
        /\ call[p].op = "GetAssetStats" /\ pc[p] = "unlock"
        /\ local[p].stats.Total = 11
        /\ pc[q] = "lock" /\ call[q].op = "DeleteAsset"

-----------------------------------------------------------------------------
(* C11 *)

\* The statuses the comment on models.Asset.Status lists.
AssetStatuses == {"active", "maintenance", "retired"}

\* C11: in every state the API reaches, the Status of every stored asset is
\* one of "active", "maintenance", "retired".  The handlers store the status
\* the body gives: PUT /api/assets/A001 with a body that gives no status
\* stores Status "", which GetAssetStats counts in Total and in none of
\* Active, Maintenance, Retired.
C11_StatusIsOneOfThree ==
    \A id \in DOMAIN assets : assets[id].Status \in AssetStatuses

-----------------------------------------------------------------------------
(* RequestIDSpec: requests served concurrently through one RequestID        *)
(* middleware.  net/http runs every request in a goroutine of its own, and  *)
(* the closure variable counter is read and written with no lock: the       *)
(* increment is a load and a store other goroutines can come between.       *)

\* string(rune(reqID)): the low 32 bits as a code point, U+FFFD when that is
\* no valid code point.  The times of the model are below 2^31, so the low
\* 32 bits of reqID are reqID.
RuneString(reqID) ==
    IF reqID < 0 \/ reqID > 1114111 \/ (reqID >= 55296 /\ reqID <= 57343)
    THEN 65533
    ELSE reqID

\* GetRequestID(ctx) of the context RequestID hands to next.
GetRequestID(r) == rid[r].ctx

\* counter++, first half: the goroutine reads counter.
RidLoad(r) ==
    /\ rid[r].pc = "counter++"
    /\ rid' = [rid EXCEPT ![r].tmp = counter, ![r].pc = "store"]
    /\ UNCHANGED <<notRidVars, clock, counter>>

\* counter++, second half: the goroutine writes the value it read, plus one
\* (a uint64: with at most MaxRequests increments it does not wrap).
RidStore(r) ==
    /\ rid[r].pc = "store"
    /\ counter' = rid[r].tmp + 1
    /\ rid' = [rid EXCEPT ![r].pc = "now"]
    /\ UNCHANGED <<notRidVars, clock>>

\* reqID := time.Now().UnixNano(), stored in the context and in the header.
RidNow(r) ==
    /\ rid[r].pc = "now"
    /\ rid' = [rid EXCEPT ![r].reqID = clock, ![r].ctx = clock,
                          ![r].header = RuneString(clock), ![r].pc = "next"]
    /\ UNCHANGED <<notRidVars, clock, counter>>

\* next.ServeHTTP(w, r.WithContext(ctx)) runs and returns.
RidNext(r) ==
    /\ rid[r].pc = "next"
    /\ rid' = [rid EXCEPT ![r].pc = "done"]
    /\ UNCHANGED <<notRidVars, clock, counter>>

\* The clock time.Now() reads moves on; between two reads it need not.
RidTick ==
    /\ clock < ZeroTime + 1 + MaxRequests
    /\ clock' = clock + 1
    /\ UNCHANGED <<notRidVars, ridVars>>

RequestIDNext ==
    \/ \E r \in Requests : RidLoad(r)
    \/ \E r \in Requests : RidStore(r)
    \/ \E r \in Requests : RidNow(r)
    \/ \E r \in Requests : RidNext(r)
    \/ RidTick

RequestIDSpec == Init /\ [][RequestIDNext]_vars

-----------------------------------------------------------------------------
(* C12 *)

\* The requests that have been given their request ID.
HasRequestID(r) == rid[r].pc \in {"next", "done"}

\* The requests that have finished counter++.
Counted == {r \in Requests : rid[r].pc \notin {"counter++", "store"}}

\* The second half of C12: the counter is updated without a race, that is,
\* when no request is in the middle of counter++, counter is the number of
\* requests that have done it.
CounterCountsRequests ==
    (\A r \in Requests : rid[r].pc # "store") => counter = Cardinality(Counted)

\* C12: no two requests served through the RequestID middleware receive the
\* same request ID, and the counter is updated without a race.  The ID is
\* time.Now().UnixNano(), which two requests read equal when the clock has
\* not moved between them, and counter++ is an unsynchronized load and
\* store, so an increment can be lost.
C12_RequestIDsUnique ==
    /\ \A r1, r2 \in Requests :
          (r1 # r2 /\ HasRequestID(r1) /\ HasRequestID(r2))
              => GetRequestID(r1) # GetRequestID(r2)
    /\ CounterCountsRequests

-----------------------------------------------------------------------------
(* MwSpec: one request at a time through a chain of middleware and the      *)
(* handler at its end.  A middleware is entered (the code before its        *)
(* next.ServeHTTP), the handler runs its script, and the middleware are     *)
(* left innermost first (the code after next.ServeHTTP, or the deferred     *)
(* function when a panic is unwinding the stack).                           *)

Elems(seq) == {seq[i] : i \in 1..Len(seq)}

\* CORS: allowed only by an exact match, "*" taken for an origin like another.
AllowedIgnoringWildcard(allowedOrigins, origin) ==
    \E i \in 1..Len(allowedOrigins) : allowedOrigins[i] = origin

\* CORS: the loop over allowedOrigins from index i on.
RECURSIVE AllowedFrom(_, _, _)
AllowedFrom(allowedOrigins, origin, i) ==
    IF i > Len(allowedOrigins) THEN FALSE
    ELSE IF allowedOrigins[i] = "*" \/ allowedOrigins[i] = origin THEN TRUE
    ELSE AllowedFrom(allowedOrigins, origin, i + 1)

Allowed(allowedOrigins, origin) == AllowedFrom(allowedOrigins, origin, 1)

\* w.Header().Set(k, v)
SetHeader(m, k, v) == [m EXCEPT !.w.header = MapPut(@, k, v)]

\* WriteHeader of the ResponseWriter of net/http: the first call writes the
\* status and the headers set so far, a later call is ignored.
WriteHeader(wr, code) ==
    IF wr.status = 0 THEN [wr EXCEPT !.status = code, !.sent = wr.header] ELSE wr

\* responseWriter.WriteHeader that forwards the code without recording it.
ResponseWriterForwardsOnly(m, code) == [m EXCEPT !.w = WriteHeader(m.w, code)]

\* responseWriter.WriteHeader of Logger's wrapper.
ResponseWriterWriteHeader(m, code) ==
    [m EXCEPT !.wrapped = code, !.w = WriteHeader(m.w, code)]

\* The writer code inside the entered middleware holds: Logger's wrapper
\* when Logger is one of them, the ResponseWriter of net/http otherwise.
BehindLogger(m) == "Logger" \in Elems(m.stack)

\* w.WriteHeader(code) called by the handler or by a middleware.
CallWriteHeader(m, code) ==
    IF BehindLogger(m) THEN ResponseWriterWriteHeader(m, code)
    ELSE [m EXCEPT !.w = WriteHeader(m.w, code)]

\* w.Write(body): responseWriter does not define Write, so the call goes to
\* the embedded ResponseWriter, which writes status 200 first if no header
\* was written.
CallWrite(m) == [m EXCEPT !.w = WriteHeader(m.w, StatusOK)]

\* http.Error that writes its text without a status of its own.
HttpErrorWithoutStatus(m, code) ==
    CallWrite(SetHeader(m, "Content-Type", "text/plain; charset=utf-8"))

\* http.Error(w, text, code)
HttpError(m, code) ==
    CallWrite(CallWriteHeader(
        SetHeader(SetHeader(m, "Content-Type", "text/plain; charset=utf-8"),
                  "X-Content-Type-Options", "nosniff"),
        code))

\* logger.Info / logger.Error
Log(m, entry) == [m EXCEPT !.logs = Append(@, entry)]

\* next.ServeHTTP(w, r) of the middleware `name`: it stays on the stack until
\* what it called returns or panics.
Call(m, name) == [m EXCEPT !.stack = Append(@, name), !.next = @ + 1]

\* The middleware on top of the stack returns.
Pop(m) == [m EXCEPT !.stack = SubSeq(@, 1, Len(@) - 1)]

\* The next middleware of the chain to enter is `name`.
NextIs(name) ==
    /\ mw.mode = "calling"
    /\ mw.next <= Len(mwConf.chain)
    /\ mwConf.chain[mw.next] = name

\* What `name` called has returned or is panicking, and `name` is next to go.
Leaving(name) ==
    /\ mw.mode = "returning"
    /\ mw.stack # <<>>
    /\ mw.stack[Len(mw.stack)] = name

\* net/http hands a request to the chain.
MwAccept ==
    /\ mw.mode \in {"idle", "done"}
    /\ Len(served) < MaxServed
    /\ \E method \in Methods, origin \in Origins, proxy \in ProxyHeaders,
          script \in Scripts :
          mw' = [IdleMw EXCEPT
                    !.mode = "calling",
                    !.req = [method |-> method, origin |-> origin,
                             xff |-> proxy.xff, xrip |-> proxy.xrip,
                             remote |-> PeerAddr, script |-> script],
                    !.script = script]
    /\ UNCHANGED <<notMwVars, mwConf, served>>

\* RealIP: r.RemoteAddr becomes X-Forwarded-For if the request has it, else
\* X-Real-IP if the request has it.
RealIP(r) ==
    IF r.xff # "" THEN [r EXCEPT !.remote = r.xff]
    ELSE IF r.xrip # "" THEN [r EXCEPT !.remote = r.xrip]
    ELSE r

\* RealIP, up to next.ServeHTTP(w, r).
EnterRealIP ==
    /\ NextIs("RealIP")
    /\ mw' = Call([mw EXCEPT !.req = RealIP(@)], "RealIP")
    /\ UNCHANGED <<notMwVars, mwConf, served>>

ExitRealIP ==
    /\ Leaving("RealIP")
    /\ mw' = Pop(mw)
    /\ UNCHANGED <<notMwVars, mwConf, served>>

\* Logger, up to next.ServeHTTP(wrapped, r).
EnterLogger ==
    /\ NextIs("Logger")
    /\ mw' = Call([mw EXCEPT !.wrapped = StatusOK], "Logger")
    /\ UNCHANGED <<notMwVars, mwConf, served>>

\* Logger, after next.ServeHTTP returned: one log line with wrapped.status.
\* There is no defer: when next panics the rest of Logger does not run.
ExitLogger ==
    /\ Leaving("Logger")
    /\ mw' = IF mw.panic THEN Pop(mw)
             ELSE Pop(Log(mw, [msg |-> "request", method |-> mw.req.method,
                               status |-> mw.wrapped, remote |-> mw.req.remote]))
    /\ UNCHANGED <<notMwVars, mwConf, served>>

\* Recoverer, up to next.ServeHTTP(w, r): the deferred function is set up.
EnterRecoverer ==
    /\ NextIs("Recoverer")
    /\ mw' = Call(mw, "Recoverer")
    /\ UNCHANGED <<notMwVars, mwConf, served>>

\* The deferred function with the http.Error left out.
RecoverWithoutAnswer(m) ==
    IF m.panic
    THEN [Log(m, [msg |-> "panic recovered"]) EXCEPT !.panic = FALSE]
    ELSE m

\* The deferred function of Recoverer: recover(), and when there was a
\* panic the log line and http.Error.
Recover(m) ==
    IF m.panic
    THEN [HttpError(Log(m, [msg |-> "panic recovered"]), StatusInternalServerError)
             EXCEPT !.panic = FALSE]
    ELSE m

\* Recoverer returns: its deferred function runs, panic or not.
ExitRecoverer ==
    /\ Leaving("Recoverer")
    /\ mw' = Pop(Recover(mw))
    /\ UNCHANGED <<notMwVars, mwConf, served>>

\* SecureHeaders, up to next.ServeHTTP(w, r).
EnterSecureHeaders ==
    /\ NextIs("SecureHeaders")
    /\ mw' = Call(
          SetHeader(SetHeader(SetHeader(SetHeader(mw,
              "X-Content-Type-Options", "nosniff"),
              "X-Frame-Options", "DENY"),
              "X-XSS-Protection", "1; mode=block"),
              "Referrer-Policy", "strict-origin-when-cross-origin"),
          "SecureHeaders")
    /\ UNCHANGED <<notMwVars, mwConf, served>>

ExitSecureHeaders ==
    /\ Leaving("SecureHeaders")
    /\ mw' = Pop(mw)
    /\ UNCHANGED <<notMwVars, mwConf, served>>

\* The four headers CORS sets for an allowed origin.
SetCORSHeaders(m, origin) ==
    SetHeader(SetHeader(SetHeader(SetHeader(m,
        "Access-Control-Allow-Origin", origin),
        "Access-Control-Allow-Methods", "GET, POST, PUT, DELETE, OPTIONS"),
        "Access-Control-Allow-Headers", "Content-Type, Authorization"),
        "Access-Control-Max-Age", "86400")

\* CORS, up to its return for a preflight request or to next.ServeHTTP(w, r).
EnterCORS ==
    /\ NextIs("CORS")
    /\ LET m == IF Allowed(mwConf.allowedOrigins, mw.req.origin)
                THEN SetCORSHeaders(mw, mw.req.origin)
                ELSE mw
       IN  mw' = IF mw.req.method = "OPTIONS"
                 THEN [CallWriteHeader(m, StatusNoContent) EXCEPT !.mode = "returning"]
                 ELSE Call(m, "CORS")
    /\ UNCHANGED <<notMwVars, mwConf, served>>

ExitCORS ==
    /\ Leaving("CORS")
    /\ mw' = Pop(mw)
    /\ UNCHANGED <<notMwVars, mwConf, served>>

\* The innermost middleware calls the handler.
EnterHandler ==
    /\ mw.mode = "calling"
    /\ mw.next = Len(mwConf.chain) + 1
    /\ mw' = [mw EXCEPT !.mode = "handler", !.invoked = @ + 1]
    /\ UNCHANGED <<notMwVars, mwConf, served>>

\* The handler's next step is `op`.
HandlerAt(op) ==
    /\ mw.mode = "handler"
    /\ mw.script # <<>>
    /\ Head(mw.script).op = op

HandlerWriteHeader ==
    /\ HandlerAt("WriteHeader")
    /\ mw' = [CallWriteHeader(mw, Head(mw.script).code) EXCEPT !.script = Tail(@)]
    /\ UNCHANGED <<notMwVars, mwConf, served>>

HandlerWrite ==
    /\ HandlerAt("Write")
    /\ mw' = [CallWrite(mw) EXCEPT !.script = Tail(@)]
    /\ UNCHANGED <<notMwVars, mwConf, served>>

\* The handler panics: the stack unwinds, running deferred functions only.
HandlerPanic ==
    /\ HandlerAt("panic")
    /\ mw' = [mw EXCEPT !.mode = "returning", !.panic = TRUE, !.script = <<>>]
    /\ UNCHANGED <<notMwVars, mwConf, served>>

HandlerReturn ==
    /\ mw.mode = "handler"
    /\ mw.script = <<>>
    /\ mw' = [mw EXCEPT !.mode = "returning"]
    /\ UNCHANGED <<notMwVars, mwConf, served>>

\* The chain has returned to net/http: a handler that wrote no header is
\* answered with status 200; a panic that reached the server aborts the
\* response.
MwFinish ==
    /\ mw.mode = "returning"
    /\ mw.stack = <<>>
    /\ mw' = [mw EXCEPT !.mode = "done",
                        !.w = IF mw.panic THEN @ ELSE WriteHeader(@, StatusOK)]
    /\ served' = Append(served, [status |-> mw'.w.status, aborted |-> mw.panic])
    /\ UNCHANGED <<notMwVars, mwConf>>

InitApi ==
    /\ InitStore
    /\ InitLock
    /\ req = NoReq
    /\ resp = NoResp

\* The chain and the allowed origins are chosen when the server is built.
MwInit ==
    /\ InitApi
    /\ InitUI
    /\ InitRequestID
    /\ InitMain
    /\ InitQuoteSample
    /\ \E chain \in Chains, allowedOrigins \in AllowedLists :
          InitMw(chain, allowedOrigins)

MwNext ==
    \/ MwAccept
    \/ EnterRealIP
    \/ ExitRealIP
    \/ EnterLogger
    \/ ExitLogger
    \/ EnterRecoverer
    \/ ExitRecoverer
    \/ EnterSecureHeaders
    \/ ExitSecureHeaders
    \/ EnterCORS
    \/ ExitCORS
    \/ EnterHandler
    \/ HandlerWriteHeader
    \/ HandlerWrite
    \/ HandlerPanic
    \/ HandlerReturn
    \/ MwFinish

MwSpec == MwInit /\ [][MwNext]_vars

-----------------------------------------------------------------------------
(* C13 *)

\* The request in mw has been answered.
Done == mw.mode = "done"

\* How the last finished request was answered.
Answer == served[Len(served)]

\* The handler was called and its script ends in a panic.
HandlerPanicked ==
    /\ mw.invoked > 0
    /\ \E i \in 1..Len(mw.req.script) : mw.req.script[i].op = "panic"

\* The handler wrote a header (by WriteHeader, or by Write) before it
\* panicked.
WroteBeforePanic == HandlerPanicked /\ mw.req.script[1].op # "panic"

\* The status the handler's first write sent.
FirstStatus ==
    IF mw.req.script[1].op = "WriteHeader" THEN mw.req.script[1].code ELSE StatusOK

\* The "panic recovered" lines logged for the request in mw.
PanicLines == {i \in 1..Len(mw.logs) : mw.logs[i].msg = "panic recovered"}

RecovererInChain == "Recoverer" \in Elems(mwConf.chain)

\* C13 as the claim has it: whenever the handler wrapped by Recoverer
\* panics, the client is answered with status 500.  A handler that wrote a
\* header before it panicked has fixed the status: http.Error's WriteHeader
\* comes too late.
C13_PanicAnswered500 ==
    (Done /\ RecovererInChain /\ HandlerPanicked)
        => Answer.status = StatusInternalServerError

\* C13, amended: with Recoverer in the chain no panic reaches the server
\* (no request is aborted, the first or a later one); a request whose
\* handler panicked has one "panic recovered" line logged and is answered
\* 500, or, when the handler had written a header before it panicked, with
\* the status of that header; and when nothing panics Recoverer changes
\* neither the response writer nor the log, entering or leaving.
C13_RecovererRecovers ==
    /\ [](RecovererInChain => \A i \in 1..Len(served) : ~served[i].aborted)
    /\ []((Done /\ RecovererInChain /\ HandlerPanicked) =>
            /\ Cardinality(PanicLines) = 1
            /\ Answer.status = IF WroteBeforePanic THEN FirstStatus
                                ELSE StatusInternalServerError)
    /\ [][(NextIs("Recoverer") \/ (Leaving("Recoverer") /\ ~mw.panic))
             => (mw'.w = mw.w /\ mw'.logs = mw.logs /\ mw'.wrapped = mw.wrapped)]_vars

\* A request whose handler panicked after writing status 200 has been
\* answered, with that status and a "panic recovered" line, after an earlier
\* request of the same chain was answered 500.
C13_Witness ==
    /\ Done
    /\ RecovererInChain
    /\ Len(served) = 2
    /\ served[1].status = StatusInternalServerError
    /\ mw.req.script = <<WH(StatusOK), Panic>>
    /\ Answer.status = StatusOK
    /\ PanicLines # {}

-----------------------------------------------------------------------------
(* C14 *)

AccessControlHeaders ==
    {"Access-Control-Allow-Origin", "Access-Control-Allow-Methods",
     "Access-Control-Allow-Headers", "Access-Control-Max-Age"}

\* The request's Origin is allowed: the list CORS was built with contains
\* "*" or the Origin itself.
OriginAllowed ==
    \/ "*" \in Elems(mwConf.allowedOrigins)
    \/ mw.req.origin \in Elems(mwConf.allowedOrigins)

\* The header map h has the four headers if the origin is allowed, and none
\* of them if it is not.
CORSHeadersIffAllowed(h) ==
    IF OriginAllowed
    THEN /\ AccessControlHeaders \subseteq DOMAIN h
         /\ h["Access-Control-Allow-Origin"] = mw.req.origin
    ELSE AccessControlHeaders \cap DOMAIN h = {}

CORSInChain == "CORS" \in Elems(mwConf.chain)

\* C14: a request served through CORS has the four Access-Control-* headers
\* exactly when its Origin is allowed (in the header map, and in the headers
\* sent unless a panic aborted the response); a request with method OPTIONS
\* is answered 204 and the handler is not invoked, allowed or not; every
\* other request reaches the handler exactly once.
C14_CORS ==
    (Done /\ CORSInChain) =>
        /\ CORSHeadersIffAllowed(mw.w.header)
        /\ ~Answer.aborted => CORSHeadersIffAllowed(mw.w.sent)
        /\ mw.req.method = "OPTIONS" =>
              (Answer.status = StatusNoContent /\ ~Answer.aborted /\ mw.invoked = 0)
        /\ mw.req.method # "OPTIONS" => mw.invoked = 1

\* A preflight request from an origin that is not allowed has been answered
\* 204 without the headers and without the handler.
C14_Witness ==
    /\ Done
    /\ CORSInChain
    /\ mw.req.method = "OPTIONS"
    /\ mw.req.origin = OriginB
    /\ mwConf.allowedOrigins = <<OriginA>>
    /\ Answer.status = StatusNoContent
    /\ mw.invoked = 0
    /\ DOMAIN mw.w.sent \cap AccessControlHeaders = {}

\* A request from an origin the list allows by its second entry has reached
\* the handler once and carries the four headers.
C14_WitnessAllowed ==
    /\ Done
    /\ CORSInChain
    /\ mw.req.method = "GET"
    /\ mw.req.origin = OriginA
    /\ mwConf.allowedOrigins = <<OriginB, OriginA>>
    /\ mw.invoked = 1
    /\ AccessControlHeaders \subseteq DOMAIN mw.w.sent

-----------------------------------------------------------------------------
(* C15 *)

LoggerInChain == "Logger" \in Elems(mwConf.chain)

\* The "request" lines logged for the request in mw.
RequestLines == {i \in 1..Len(mw.logs) : mw.logs[i].msg = "request"}

\* The handler's panic unwinds through Logger: nothing between Logger and
\* the handler recovers it.
PanicThroughLogger == HandlerPanicked /\ ~RecovererInChain

\* The WriteHeader calls of the handler's script.
WriteHeaderCalls == {i \in 1..Len(mw.req.script) : mw.req.script[i].op = "WriteHeader"}

\* The code of the last WriteHeader call made on Logger's writer by what
\* Logger wraps, 200 when there was none: CORS answers a preflight request
\* with 204, Recoverer answers a panic with 500 after whatever the handler
\* wrote, and otherwise the calls are the handler's.
LastCodePassed ==
    IF mw.invoked = 0 THEN StatusNoContent
    ELSE IF HandlerPanicked /\ RecovererInChain THEN StatusInternalServerError
    ELSE IF WriteHeaderCalls = {} THEN StatusOK
    ELSE mw.req.script[CHOOSE i \in WriteHeaderCalls :
                          \A j \in WriteHeaderCalls : j <= i].code

\* C15 as the claim has it: every request served through Logger is logged
\* exactly once.  Logger logs after next.ServeHTTP without a defer, so a
\* request whose handler panics through Logger is not logged at all.
C15_LoggedExactlyOnce ==
    (Done /\ LoggerInChain) => Cardinality(RequestLines) = 1

\* C15, amended: a request whose wrapped handler returns to Logger is logged
\* exactly once, with the code of the last WriteHeader call made on Logger's
\* writer, or 200 when there was none; the line is written when the wrapped
\* handler has returned to Logger; a request whose handler panics through
\* Logger gets no line.
C15_LoggerLogs ==
    /\ []((Done /\ LoggerInChain) =>
            IF PanicThroughLogger
            THEN RequestLines = {}
            ELSE /\ Cardinality(RequestLines) = 1
                 /\ \A i \in RequestLines :
                       /\ mw.logs[i].status = LastCodePassed
                       /\ mw.logs[i].method = mw.req.method)
    /\ [][(Len(mw'.logs) > Len(mw.logs) /\ mw'.logs[Len(mw'.logs)].msg = "request")
             => /\ mw.mode = "returning"
                /\ ~mw.panic
                /\ mw.invoked > 0 => mw.script = <<>>
                /\ mw.stack # <<>>
                /\ mw.stack[Len(mw.stack)] = "Logger"]_vars

\* A handler that called WriteHeader(404) and then WriteHeader(200) has
\* returned through the chain of main: the client was answered 404 and the
\* one line logged says 200.
C15_Witness ==
    /\ Done
    /\ LoggerInChain
    /\ mw.req.script = <<WH(StatusNotFound), WH(StatusOK)>>
    /\ Cardinality(RequestLines) = 1
    /\ \A i \in RequestLines : mw.logs[i].status = StatusOK
    /\ Answer.status = StatusNotFound

-----------------------------------------------------------------------------
(* MainSpec: main from the start of the listener goroutine to the end of    *)
(* the process, the goroutine that runs srv.ListenAndServe, and the signals *)
(* sent to the process.                                                     *)

\* make(chan error, 1) and make(chan os.Signal, 1)
ServerErrCap == 1
QuitCap == 1

Signals == {"SIGINT", "SIGTERM"}

\* The process is running: after it ends no goroutine takes a step.
Running == ~exit.done

\* go func() { ...; serverErr <- srv.ListenAndServe() }()
MainGo ==
    /\ Running
    /\ mainPc = "start"
    /\ lsn' = [lsn EXCEPT !.pc = "listening"]
    /\ mainPc' = "notify"
    /\ UNCHANGED <<notMainVars, serverErr, quit, notified, srv, mainLog, exit, sigs>>

\* quit := make(chan os.Signal, 1); signal.Notify(quit, SIGINT, SIGTERM)
MainNotify ==
    /\ Running
    /\ mainPc = "notify"
    /\ notified' = TRUE
    /\ mainPc' = "select"
    /\ UNCHANGED <<notMainVars, lsn, serverErr, quit, srv, mainLog, exit, sigs>>

\* SIGINT or SIGTERM is sent to the process.  Before signal.Notify the
\* signal has its default action and ends the process; after it the signal
\* package sends it to quit without blocking, dropping it when the buffer is
\* full.
Signal ==
    /\ Running
    /\ sigs < MaxSignals
    /\ sigs' = sigs + 1
    /\ \E sig \in Signals :
          IF ~notified
          THEN /\ exit' = [done |-> TRUE, status |-> 2, by |-> sig]
               /\ quit' = quit
          ELSE /\ quit' = IF Len(quit) < QuitCap THEN Append(quit, sig) ELSE quit
               /\ exit' = exit
    /\ UNCHANGED <<notMainVars, mainPc, lsn, serverErr, notified, srv, mainLog>>

\* select, case err := <-serverErr
MainSelectServerErr ==
    /\ Running
    /\ mainPc = "select"
    /\ serverErr # <<>>
    /\ serverErr' = Tail(serverErr)
    /\ mainLog' = Append(mainLog, [msg |-> "server error", arg |-> Head(serverErr)])
    /\ mainPc' = "shutdown"
    /\ UNCHANGED <<notMainVars, lsn, quit, notified, srv, exit, sigs>>

\* select, case sig := <-quit
MainSelectQuit ==
    /\ Running
    /\ mainPc = "select"
    /\ quit # <<>>
    /\ quit' = Tail(quit)
    /\ mainLog' = Append(mainLog, [msg |-> "shutting down", arg |-> Head(quit)])
    /\ mainPc' = "shutdown"
    /\ UNCHANGED <<notMainVars, lsn, serverErr, notified, srv, exit, sigs>>

\* srv.Shutdown(ctx) is called: the listeners are closed.
MainShutdown ==
    /\ Running
    /\ mainPc = "shutdown"
    /\ srv' = [shutdownCalls |-> srv.shutdownCalls + 1, closed |-> TRUE]
    /\ mainPc' = "inShutdown"
    /\ UNCHANGED <<notMainVars, lsn, serverErr, quit, notified, mainLog, exit, sigs>>

\* main after Shutdown with its error ignored.
AfterShutdownIgnoringError(failed) ==
    [msg |-> "server stopped", status |-> 0, by |-> "return"]

\* main after Shutdown: "shutdown error" and os.Exit(1) when it failed,
\* "server stopped" and the return from main when it did not.
AfterShutdown(failed) ==
    IF failed
    THEN [msg |-> "shutdown error", status |-> 1, by |-> "os.Exit"]
    ELSE [msg |-> "server stopped", status |-> 0, by |-> "return"]

\* srv.Shutdown(ctx) returns: nil when the connections went idle, the error
\* of ctx when the 30 seconds ran out first.  main ends the process.
MainShutdownReturns ==
    /\ Running
    /\ mainPc = "inShutdown"
    /\ \E failed \in BOOLEAN :
          LET after == AfterShutdown(failed)
          IN  /\ mainLog' = Append(mainLog, [msg |-> after.msg, arg |-> failed])
              /\ exit' = [done |-> TRUE, status |-> after.status, by |-> after.by]
    /\ mainPc' = "exited"
    /\ UNCHANGED <<notMainVars, lsn, serverErr, quit, notified, srv, sigs>>

\* srv.ListenAndServe returns an error of its own (the port is taken, Accept
\* fails).
LsnFail ==
    /\ Running
    /\ lsn.pc = "listening"
    /\ ~srv.closed
    /\ lsn' = [pc |-> "send", result |-> "listen error"]
    /\ UNCHANGED <<notMainVars, mainPc, serverErr, quit, notified, srv, mainLog, exit, sigs>>

\* srv.ListenAndServe returns ErrServerClosed once Shutdown has been called.
LsnClosed ==
    /\ Running
    /\ lsn.pc = "listening"
    /\ srv.closed
    /\ lsn' = [pc |-> "send", result |-> "ErrServerClosed"]
    /\ UNCHANGED <<notMainVars, mainPc, serverErr, quit, notified, srv, mainLog, exit, sigs>>

\* serverErr <- result: the send goes through when the buffer has room.
LsnSend ==
    /\ Running
    /\ lsn.pc = "send"
    /\ Len(serverErr) < ServerErrCap
    /\ serverErr' = Append(serverErr, lsn.result)
    /\ lsn' = [lsn EXCEPT !.pc = "done"]
    /\ UNCHANGED <<notMainVars, mainPc, quit, notified, srv, mainLog, exit, sigs>>

MainNext ==
    \/ MainGo
    \/ MainNotify
    \/ Signal
    \/ MainSelectServerErr
    \/ MainSelectQuit
    \/ MainShutdown
    \/ MainShutdownReturns
    \/ LsnFail
    \/ LsnClosed
    \/ LsnSend

\* The scheduler runs every goroutine that can take a step, and Shutdown
\* returns (its context has a timeout); signals and listener errors may or
\* may not happen.
MainFairness ==
    /\ WF_vars(MainGo)
    /\ WF_vars(MainNotify)
    /\ WF_vars(MainSelectServerErr)
    /\ WF_vars(MainSelectQuit)
    /\ WF_vars(MainShutdown)
    /\ WF_vars(MainShutdownReturns)
    /\ WF_vars(LsnClosed)
    /\ WF_vars(LsnSend)

MainSpec == Init /\ [][MainNext]_vars /\ MainFairness

-----------------------------------------------------------------------------
(* C16 *)

\* The process has received SIGINT or SIGTERM.
Signalled == sigs > 0

\* The listener goroutine has reported the result of ListenAndServe.
Reported == lsn.pc = "done"

\* main has called Shutdown exactly once and the process has ended.
ShutDownAndEnded == exit.done /\ srv.shutdownCalls = 1

\* C16 as the claim has it: once the process receives SIGINT or SIGTERM, or
\* the listener goroutine reports an error, main eventually calls Shutdown
\* exactly once and then terminates.  main starts the listener goroutine
\* before it calls signal.Notify: a signal that arrives in between has its
\* default action and ends the process without Shutdown.
C16_EventLeadsToShutdown == (Signalled \/ Reported) ~> ShutDownAndEnded

\* The messages main has logged.
Logged == {mainLog[i].msg : i \in 1..Len(mainLog)}

\* C16, amended: Shutdown is called at most once; once signal.Notify has
\* been called, a signal in quit or a result in serverErr leads to the end
\* of the process with Shutdown called exactly once; when main ends the
\* process, it does so with "server stopped" as its last line and status 0
\* if Shutdown succeeded, and with status 1 and no "server stopped" if it
\* failed; the listener goroutine's send to serverErr always finds room in
\* the buffer, so it completes unless the process ends first.
C16_GracefulShutdown ==
    /\ [](srv.shutdownCalls <= 1)
    /\ (notified /\ (quit # <<>> \/ serverErr # <<>>)) ~> ShutDownAndEnded
    /\ []((exit.done /\ notified) =>
            /\ srv.shutdownCalls = 1
            /\ LET last == mainLog[Len(mainLog)]
               IN  IF last.arg
                   THEN exit.status = 1 /\ "server stopped" \notin Logged
                   ELSE exit.status = 0 /\ last.msg = "server stopped")
    /\ []((Running /\ lsn.pc = "send") => Len(serverErr) < ServerErrCap)
    /\ (lsn.pc = "send") ~> (lsn.pc = "done" \/ exit.done)

\* The signal came first: main logged "shutting down", Shutdown succeeded,
\* "server stopped" was logged and main returned, and the listener goroutine
\* has sent ErrServerClosed to serverErr although nobody receives it.
C16_Witness ==
    /\ exit.done
    /\ exit.by = "return"
    /\ mainLog[1].msg = "shutting down"
    /\ mainLog[Len(mainLog)].msg = "server stopped"
    /\ srv.shutdownCalls = 1
    /\ lsn.pc = "done"
    /\ serverErr = <<"ErrServerClosed">>

\* The listener reported an error first and Shutdown failed: the process
\* ended with status 1.
C16_WitnessListenerFirst ==
    /\ exit.done
    /\ exit.by = "os.Exit"
    /\ exit.status = 1
    /\ mainLog[1].msg = "server error"
    /\ srv.shutdownCalls = 1

-----------------------------------------------------------------------------
(* QuoteSpec: the insurance-quote handler renders plan cards (formatMoney   *)
(* of the plan's amounts) and the quote form.  Strings are sequences of     *)
(* characters, so that they can be sliced as the code slices them.          *)

\* int64(amount) with the fraction rounded to the nearest integer instead.
RoundToInt64(amount) ==
    LET magnitude == amount.whole + (IF amount.half THEN 1 ELSE 0)
    IN  IF amount.neg THEN 0 - magnitude ELSE magnitude

\* int64(amount): the fraction is dropped, towards zero.
Int64(amount) == IF amount.neg THEN 0 - amount.whole ELSE amount.whole

\* The decimal digits of n >= 0, one character each.
RECURSIVE DigitChars(_)
DigitChars(n) ==
    IF n < 10 THEN <<Digits[n + 1]>>
    ELSE Append(DigitChars(n \div 10), Digits[(n % 10) + 1])

\* fmt.Sprintf("%d", n)
SprintfD(n) == IF n < 0 THEN <<"-">> \o DigitChars(0 - n) ELSE DigitChars(n)

\* The loop of formatMoney: str[i:i+3] and a comma while more follows (i is
\* the 0-based index of the code).
RECURSIVE WriteGroups(_, _)
WriteGroups(str, i) ==
    IF i >= Len(str) THEN <<>>
    ELSE SubSeq(str, i + 1, i + 3)
             \o (IF i + 3 < Len(str) THEN <<",">> ELSE <<>>)
             \o WriteGroups(str, i + 3)

formatMoney(amount) ==
    LET intPart == Int64(amount)
        printed == SprintfD(intPart)
        str == IF intPart < 0 THEN Tail(printed) ELSE printed
        n == Len(str)
        sign == IF intPart < 0 THEN <<"-", "$">> ELSE <<"$">>
        offset == n % 3
        first == IF offset > 0
                 THEN SubSeq(str, 1, offset) \o (IF n > 3 THEN <<",">> ELSE <<>>)
                 ELSE <<>>
    IN  IF n <= 3 THEN sign \o str
        ELSE sign \o first \o WriteGroups(str, offset)

\* planCard: the two amounts of the card.
RenderPlanCard ==
    /\ page' = [kind |-> "planCard",
                coverage |-> formatMoney(plan.Coverage),
                deductible |-> formatMoney(plan.Deductible)]
    /\ UNCHANGED <<notQuoteVars, plan>>

\* The values of the type parameter of /quote; "" when it is missing.
QueryTypes == {"", "auto", "home", "life", "business", "boat"}

\* coverageOptions of quoteFormWithRules.
CoverageOptions == <<"auto", "home", "life", "business">>

\* The class attribute of each dependency target of the form has "hidden"
\* or not: the classes are string literals of quoteFormWithRules.
SectionHidden ==
    [id \in {"auto-fields", "home-fields", "life-fields", "business-fields",
             "accident-details", "pool-coverage", "smoker-notice",
             "premises-fields"} |-> id # "auto-fields"]

\* quoteFormWithRules(b, initialType): the radio of each coverage option
\* with its checked attribute, and the sections with their classes.
quoteFormWithRules(initialType) ==
    [checked |-> [i \in 1..Len(CoverageOptions) |-> CoverageOptions[i] = initialType],
     hidden |-> SectionHidden]

\* QuoteWizard: GET /quote?type=...
QuoteWizard ==
    /\ \E type \in QueryTypes :
          LET coverageType == IF type = "" THEN "auto" ELSE type
          IN  page' = [kind |-> "quote", type |-> type,
                       form |-> quoteFormWithRules(coverageType)]
    /\ UNCHANGED <<notQuoteVars, plan>>

\* The store holds a plan whose amounts are any of the model's.
QuoteInit ==
    /\ InitApi
    /\ InitUI
    /\ InitRequestID
    /\ InitMwMain
    /\ InitMain
    /\ \E coverage \in Amounts, deductible \in Deductibles :
          InitQuote(coverage, deductible)

QuoteNext ==
    \/ RenderPlanCard
    \/ QuoteWizard

QuoteSpec == QuoteInit /\ [][QuoteNext]_vars

-----------------------------------------------------------------------------
(* C17 *)

\* The truncated integer part of an amount.
IntegerPart(amount) == IF amount.neg THEN 0 - amount.whole ELSE amount.whole

DigitSet == {Digits[i] : i \in 1..Len(Digits)}

\* The number a sequence of digit characters writes.
RECURSIVE ValueOf(_)
ValueOf(digits) ==
    IF digits = <<>> THEN 0
    ELSE 10 * ValueOf(SubSeq(digits, 1, Len(digits) - 1))
         + (CHOOSE k \in 0..9 : Digits[k + 1] = digits[Len(digits)])

\* text is the amount as C17 describes it: "$", or "-$" when the integer
\* part n is negative, then digits and commas such that, counted from the
\* end, every fourth character and no other is a comma and the first
\* character is a digit (so the groups after the first have 3 digits and
\* the first has 1 to 3), the digits being the decimal representation of
\* |n|.
IsMoneyOf(text, amount) ==
    LET n == IntegerPart(amount)
        sign == IF n < 0 THEN <<"-", "$">> ELSE <<"$">>
        groups == SubSeq(text, Len(sign) + 1, Len(text))
        digits == SelectSeq(groups, LAMBDA c : c # ",")
    IN  /\ Len(text) > Len(sign)
        /\ SubSeq(text, 1, Len(sign)) = sign
        /\ \A i \in 1..Len(groups) :
              IF (Len(groups) - i) % 4 = 3 THEN groups[i] = ","
              ELSE groups[i] \in DigitSet
        /\ groups[1] \in DigitSet
        /\ ValueOf(digits) = (IF n < 0 THEN 0 - n ELSE n)
        /\ (Len(digits) = 1 \/ digits[1] # "0")

\* C17: formatMoney writes the integer part of every amount as a dollar
\* amount with thousand separators: both amounts of a rendered plan card
\* are the money text of the plan's amounts.
C17_FormatMoney ==
    page.kind = "planCard" =>
        /\ IsMoneyOf(page.coverage, plan.Coverage)
        /\ IsMoneyOf(page.deductible, plan.Deductible)

\* The card of a plan with coverage -1203405.5 shows "-$1,203,405".
C17_Witness ==
    /\ page.kind = "planCard"
    /\ plan.Coverage = Amount(TRUE, 1203405, TRUE)
    /\ page.coverage = <<"-", "$", "1", ",", "2", "0", "3", ",", "4", "0", "5">>

-----------------------------------------------------------------------------
(* C18 *)

CoverageTypes == {"auto", "home", "life", "business"}

\* The section of the fields of a coverage type.
FieldsOf(type) == type \o "-fields"

\* C18: for every coverage type T, the form rendered for /quote?type=T (a
\* missing type standing for auto) has exactly the radio of T checked and
\* exactly the section T-fields without the "hidden" class.  The radio
\* follows T, but the classes of the sections are fixed: auto-fields is
\* always rendered visible and the three other sections always hidden.
C18_FormShowsFieldsOfType ==
    (page.kind = "quote" /\ (page.type = "" \/ page.type \in CoverageTypes)) =>
        LET T == IF page.type = "" THEN "auto" ELSE page.type
        IN  /\ \A i \in 1..Len(CoverageOptions) :
                  page.form.checked[i] <=> (CoverageOptions[i] = T)
            /\ \A type \in CoverageTypes :
                  page.form.hidden[FieldsOf(type)] <=> (type # T)

\* The half of C18 that holds: exactly the radio of T is checked.
RadioOfTypeChecked ==
    (page.kind = "quote" /\ (page.type = "" \/ page.type \in CoverageTypes)) =>
        LET T == IF page.type = "" THEN "auto" ELSE page.type
        IN  \A i \in 1..Len(CoverageOptions) :
                page.form.checked[i] <=> (CoverageOptions[i] = T)

-----------------------------------------------------------------------------
(* C19 *)

\* C19: a successful PUT /api/assets/{id} leaves the CreatedAt of the asset as
\* it was.  The handler stores the decoded body under the id, so CreatedAt
\* becomes whatever the body carries: the zero time when the body has no
\* created_at.
C19_UpdateKeepsCreatedAt ==
    [][(/\ Ready
        /\ req'.route = "PUT /api/assets/{id}"
        /\ resp'.status = StatusOK)
       => /\ req'.id \in DOMAIN assets
          /\ assets'[req'.id].CreatedAt = assets[req'.id].CreatedAt]_vars

-----------------------------------------------------------------------------
(* UISpec: two goroutines serve POST /assets/{id} of the asset manager's UI.
   GetAsset and UpdateAsset each run under the lock of the store (LockSpec), so
   each is one step here; the handler holds no lock between the two. *)

StatusSeeOther == 303

\* A digit's value.
DigitValue(c) == CHOOSE d \in 0..9 : Digits[d + 1] = c

IsDigit(c) == \E d \in 0..9 : Digits[d + 1] = c

\* How many leading characters of str are digits.
RECURSIVE DigitPrefix(_, _)
DigitPrefix(str, i) ==
    IF i <= Len(str) /\ IsDigit(str[i]) THEN DigitPrefix(str, i + 1) ELSE i - 1

RECURSIVE ScanValue(_, _)
ScanValue(str, n) ==
    IF n = 0 THEN 0 ELSE 10 * ScanValue(str, n - 1) + DigitValue(str[n])

\* fmt.Sscanf(str, "%f", &field) with its error ignored: the number at the
\* start of str is stored, and the field keeps its value when str does not
\* start with a number.  The form fields of the model hold unsigned whole
\* numbers or no number at all.
Sscanf(str, field) ==
    LET n == DigitPrefix(str, 1)
    IN  IF n = 0 THEN field ELSE ScanValue(str, n)

\* The forms of the model: the text fields and the two number fields, each of
\* which may be empty or hold no number.
Form(name, status, cost, value) ==
    [name |-> name, category |-> "Laptops", status |-> status,
     department |-> "Sales", purchasecost |-> cost, currentvalue |-> value]

Forms ==
    {Form(iMac, status, cost, value) :
        status \in {"active", "retired"},
        cost \in {<<>>, <<"3", "0", "0", "0">>, <<"n", "/", "a">>},
        value \in {<<>>, <<"2", "0", "0", "0">>}}

UIIDs == {"A001", "A999"}

\* AssetUpdate, the fields taken from the form.
ApplyForm(existing, form) ==
    LET named == [existing EXCEPT !.Name = form.name,
                                  !.Category = form.category,
                                  !.Status = form.status,
                                  !.Department = form.department]
        cost == IF form.purchasecost # <<>>
                THEN Sscanf(form.purchasecost, named.PurchaseCost)
                ELSE named.PurchaseCost
        val == IF form.currentvalue # <<>>
               THEN Sscanf(form.currentvalue, named.CurrentValue)
               ELSE named.CurrentValue
    IN  [named EXCEPT !.PurchaseCost = cost, !.CurrentValue = val]

\* The server hands POST /assets/{id} to a goroutine.
UIAccept(p) ==
    /\ ui[p].pc = "idle"
    /\ \E id \in UIIDs, form \in Forms \cup {Undecodable} :
           ui' = [ui EXCEPT ![p] = [pc |-> "get", id |-> id, form |-> form]]
    /\ UNCHANGED <<assets, clock, notUiVars>>

\* AssetUpdate up to the form: GetAsset, then ParseForm.
UIGetAsset(p) ==
    /\ ui[p].pc = "get"
    /\ LET r == GetAsset(ui[p].id)
           existing == r.asset
       IN  ui' = [ui EXCEPT ![p] =
                    IF r.err
                    THEN [@ EXCEPT !.pc = "done"] @@ [status |-> StatusNotFound]
                    ELSE IF ui[p].form = Undecodable
                    THEN [@ EXCEPT !.pc = "done"] @@ [status |-> StatusBadRequest]
                    ELSE [@ EXCEPT !.pc = "update"] @@ [existing |-> existing]]
    /\ UNCHANGED <<assets, clock, notUiVars>>

\* AssetUpdate from the form on: the fields, UpdateAsset and the redirect.
UIUpdateAsset(p) ==
    /\ ui[p].pc = "update"
    /\ LET r == UpdateAsset(ApplyForm(ui[p].existing, ui[p].form), clock)
       IN  /\ assets' = r.assets
           /\ ui' = [ui EXCEPT ![p] =
                       [@ EXCEPT !.pc = "done"] @@
                       [status |-> IF r.err THEN StatusInternalServerError
                                   ELSE StatusSeeOther]]
    /\ UNCHANGED <<clock, notUiVars>>

\* Time passes.
UITick ==
    /\ clock < ZeroTime + 1 + MaxOps
    /\ clock' = clock + 1
    /\ UNCHANGED <<assets, ui, notUiVars>>

UINext ==
    \/ \E p \in Procs : UIAccept(p)
    \/ \E p \in Procs : UIGetAsset(p)
    \/ \E p \in Procs : UIUpdateAsset(p)
    \/ UITick

UISpec == Init /\ [][UINext]_vars

-----------------------------------------------------------------------------
(* C20 *)

\* An asset without the time of its last update.
Timeless(a) == [a EXCEPT !.UpdatedAt = ZeroTime]

\* What a POST /assets/{id} with the form makes of the stored asset when it
\* runs alone: the text fields of the form, and each number field of the form
\* unless it is empty.
Alone(a, form) ==
    [a EXCEPT !.Name = form.name, !.Category = form.category,
              !.Status = form.status, !.Department = form.department,
              !.PurchaseCost = IF form.purchasecost = <<>> THEN @
                               ELSE Sscanf(form.purchasecost, @),
              !.CurrentValue = IF form.currentvalue = <<>> THEN @
                               ELSE Sscanf(form.currentvalue, @)]

BothUpdated ==
    /\ \A p \in Procs : ui[p].pc = "done" /\ ui[p].status = StatusSeeOther
    /\ ui["g1"].id = ui["g2"].id

\* C20: when the two requests have both updated the same asset, the stored
\* asset is (the time of the update aside) what one of the two orders of
\* running the requests one after the other gives.
C20_UpdatesSerializable ==
    BothUpdated =>
        LET id == ui["g1"].id
            a0 == LoadSampleAssets(ZeroTime + 1)[id]
            f1 == ui["g1"].form
            f2 == ui["g2"].form
        IN  Timeless(assets[id]) \in
                {Timeless(Alone(Alone(a0, f1), f2)),
                 Timeless(Alone(Alone(a0, f2), f1))}

\* What holds of the UI: an update keeps ID and CreatedAt of the stored asset.
UIKeepsCreatedAt ==
    [][\A p \in Procs : UIUpdateAsset(p) =>
          /\ DOMAIN assets' = DOMAIN assets
          /\ \A id \in DOMAIN assets : assets'[id].CreatedAt = assets[id].CreatedAt]_vars

-----------------------------------------------------------------------------
(* C21 *)

\* The headers SecureHeaders promises, with their values.
SecurityHeaders ==
    [h \in {"X-Content-Type-Options", "X-Frame-Options", "X-XSS-Protection",
            "Referrer-Policy"} |->
        CASE h = "X-Content-Type-Options" -> "nosniff"
          [] h = "X-Frame-Options" -> "DENY"
          [] h = "X-XSS-Protection" -> "1; mode=block"
          [] h = "Referrer-Policy" -> "strict-origin-when-cross-origin"]

\* The response sent carries the four security headers.
CarriesSecurityHeaders ==
    \A h \in DOMAIN SecurityHeaders :
        h \in DOMAIN mw.w.sent /\ mw.w.sent[h] = SecurityHeaders[h]

\* The chain starts with the global middleware of main, in main's order.
GlobalOrder ==
    /\ Len(mwConf.chain) >= Len(MainChain)
    /\ SubSeq(mwConf.chain, 1, Len(MainChain)) = MainChain

\* Logger has logged the request in mw once, with status 500.
LoggedOnce500 ==
    /\ Cardinality(RequestLines) = 1
    /\ \A i \in RequestLines : mw.logs[i].status = StatusInternalServerError

\* C21 as the claim has it: behind the global middleware of main, a request
\* whose handler panics is logged by Logger with status 500 and answered
\* with a 500 response that carries the four security headers, and every
\* response without a panic carries them too.  When the handler had written
\* a header before it panicked the response is not a 500 response: the
\* client has that header's status, and only the log line says 500.
C21_Panic500LoggedWithSecurityHeaders ==
    (Done /\ GlobalOrder) =>
        /\ HandlerPanicked =>
              /\ LoggedOnce500
              /\ Answer.status = StatusInternalServerError
              /\ ~Answer.aborted
        /\ CarriesSecurityHeaders

\* C21, amended: behind the global middleware of main every request is
\* answered (no panic reaches the server) with a response that carries the
\* four security headers, after a panic or not; a request whose handler
\* panicked is logged by Logger exactly once, with status 500, and its
\* response has status 500, or, when the handler had written a header
\* before it panicked, the status of that header.
C21_MainOrder ==
    (Done /\ GlobalOrder) =>
        /\ ~Answer.aborted
        /\ CarriesSecurityHeaders
        /\ HandlerPanicked =>
              /\ LoggedOnce500
              /\ Cardinality(PanicLines) = 1
              /\ Answer.status = IF WroteBeforePanic THEN FirstStatus
                                  ELSE StatusInternalServerError

\* Behind the chain of the UI routes a handler that panicked at once has
\* been answered 500 with the four security headers, and Logger's line says
\* 500 and names the address of X-Forwarded-For.
C21_Witness ==
    /\ Done
    /\ mwConf.chain = MainChain
    /\ mw.req.script = <<Panic>>
    /\ mw.req.xff = ForwardedAddr
    /\ Answer.status = StatusInternalServerError
    /\ ~Answer.aborted
    /\ CarriesSecurityHeaders
    /\ \E i \in RequestLines :
          /\ mw.logs[i].status = StatusInternalServerError
          /\ mw.logs[i].remote = ForwardedAddr

\* A handler that wrote status 200 and then panicked: the client has 200
\* with the four security headers, and Logger's line says 500.
C21_WitnessWroteBeforePanic ==
    /\ Done
    /\ GlobalOrder
    /\ mw.req.script = <<WH(StatusOK), Panic>>
    /\ Answer.status = StatusOK
    /\ CarriesSecurityHeaders
    /\ LoggedOnce500

====
